---- MODULE Spec2Model ----
(***************************************************************************)
(* State-machine model of xe::gpu::SpirvShaderTranslator                   *)
(* (src/xenia/gpu/spirv_shader_translator.cc): the control-flow block map, *)
(* the predication context and the SPIR-V builder's build point, driven by *)
(* the decoder's callbacks.                                                *)
(*                                                                         *)
(* A block pointer is modelled as a number: NullBlock is nullptr, a        *)
(* positive number n is the n-th block made by the live builder            *)
(* (spv::Builder::makeNewBlock), and Dangling is a pointer into a builder  *)
(* that has been destroyed.                                                *)
(*                                                                         *)
(* What a callback appends to the module is recorded in step.out, a        *)
(* sequence of events in emission order, each with the block it was        *)
(* emitted into.                                                           *)
(***************************************************************************)
EXTENDS Integers, Sequences, FiniteSets, TLC

\* ------------------------------------------------------------------ bounds
\* Longest control-flow program (number of CF instructions).
MaxCF == 2
\* Most ALU/fetch instructions inside one exec group.
MaxInstrs == 2
\* Most vertex attribute bindings of a vertex shader.
MaxBindings == 1
\* Most StartTranslation calls on one instance (reuse specification).
MaxTranslations == 2

VARIABLES
  build,                    \* "release" once a failed assert_* was passed over
  phase,                    \* position of the decoder's callback sequence
  shader_type,              \* "vertex" / "pixel" (is_vertex_shader())
  prog,                     \* what the pre-pass saw of each CF instruction
  pc,                       \* index of the CF instruction being processed
  exec_instr,               \* the exec instruction between Begin and End
  n_instr,                  \* ALU/fetch instructions processed in this exec
  translations,             \* StartTranslation calls on this instance
  builder_,                 \* std::unique_ptr<spv::Builder>
  cf_blocks_,               \* std::map<uint32_t, CFBlock>
  open_predicated_block_,
  predicated_block_cond_,
  predicated_block_end_,
  interface_ids_,           \* std::vector<Id>
  vertex_binding_map_,      \* keys of the (fetch constant, offset) map
  step,                     \* the last callback, its input and what it emitted
  values                    \* run-time values: what emitted code is given
                            \* and what it computes from it

vars == <<build, phase, shader_type, prog, pc, exec_instr, n_instr,
          translations, builder_, cf_blocks_, open_predicated_block_,
          predicated_block_cond_, predicated_block_end_, interface_ids_,
          vertex_binding_map_, step, values>>

\* The translator's own state, without the run-time values.
translator == <<build, phase, shader_type, prog, pc, exec_instr, n_instr,
                translations, builder_, cf_blocks_, open_predicated_block_,
                predicated_block_cond_, predicated_block_end_, interface_ids_,
                vertex_binding_map_, step>>

\* ------------------------------------------------------------ block pointers
NullBlock == 0
Dangling == -1

IsLive(b) == builder_.live /\ b >= 1 /\ b <= builder_.n_blocks

\* CFBlock's in-class initialisers: { block = nullptr, prev_dominates = true }.
DefaultCFBlock == [block |-> NullBlock, prev_dominates |-> TRUE]

NoBuilder == [live |-> FALSE, build_point |-> NullBlock, n_blocks |-> 0]

\* Destroying the builder frees its blocks: every pointer into it dangles.
DanglePtr(b) == IF b = NullBlock THEN NullBlock ELSE Dangling

DangleBlocks(cf) ==
  [a \in DOMAIN cf |-> [cf[a] EXCEPT !.block = DanglePtr(@)]]

\* ------------------------------------------------------------------ events
Ev(op, blk, t, f, on, c) ==
  [op |-> op, blk |-> blk, t |-> t, f |-> f, on |-> on, c |-> c]

Plain(op, blk) == Ev(op, blk, NullBlock, NullBlock, "", FALSE)

NoInstr == [type |-> "none"]

Step(call, instr, out, violated, unimplemented) ==
  [call |-> call, instr |-> instr, out |-> out, violated |-> violated,
   unimplemented |-> unimplemented]

EmptyMap == [a \in {} |-> DefaultCFBlock]

\* No emitted code has been given values to run on.
NoValues == [fn |-> "none", in |-> <<>>, out |-> <<>>, done |-> FALSE]

\* The instance as its constructor leaves it.
Constructed ==
  /\ build = "any"
  /\ phase = "idle"
  /\ shader_type = "vertex"
  /\ prog = <<>>
  /\ pc = 0
  /\ exec_instr = NoInstr
  /\ n_instr = 0
  /\ translations = 0
  /\ builder_ = NoBuilder
  /\ cf_blocks_ = EmptyMap
  /\ open_predicated_block_ = FALSE
  /\ predicated_block_cond_ = FALSE
  /\ predicated_block_end_ = NullBlock
  /\ interface_ids_ = <<>>
  /\ vertex_binding_map_ = {}
  /\ step = Step("SpirvShaderTranslator", NoInstr, <<>>, {}, FALSE)

Init == Constructed /\ values = NoValues

\* --------------------------------------------------- a handler in progress
\* The members a handler reads and writes while it runs: the builder's build
\* point and block count, the predication context, the block map, and what it
\* has emitted so far.  dest is "Id dest != 0", close is the handler's local
\* close_predicated_block, asserts says whether this build compiles the
\* assert_* macros in.
Ctx(asserts) ==
  [asserts |-> asserts, bp |-> builder_.build_point, nb |-> builder_.n_blocks,
   open |-> open_predicated_block_, cond |-> predicated_block_cond_,
   end |-> predicated_block_end_, cf |-> cf_blocks_,
   out |-> <<>>, violated |-> {}, unimplemented |-> FALSE,
   dest |-> FALSE, close |-> FALSE]

\* In a build with assertions the first failed assert_* ends the process:
\* nothing after it is emitted or recorded.
Halted(x) == x.asserts /\ x.violated # {}

Emit(x, e) == IF Halted(x) THEN x ELSE [x EXCEPT !.out = Append(@, e)]

\* assert_true(ok) and its relatives: the site is recorded when the asserted
\* condition does not hold.
CheckAssert(x, ok, site) ==
  IF ok \/ Halted(x) THEN x ELSE [x EXCEPT !.violated = @ \cup {site}]

\* ShaderTranslator::EmitUnimplementedTranslationError(): appends the
\* "unimplemented translation" error to the shader's error list.
EmitUnimplementedTranslationError(x) ==
  IF Halted(x) THEN x ELSE [x EXCEPT !.unimplemented = TRUE]

SetBuildPoint(x, b) == [x EXCEPT !.bp = b]

\* b.makeNewBlock(): the new block's pointer is x.nb + 1.
MakeNewBlock(x) == [x EXCEPT !.nb = @ + 1]

CreateBranch(x, t) == Emit(x, Ev("OpBranch", x.bp, t, NullBlock, "", FALSE))

\* cf_blocks_[a]: std::map::operator[] inserts a default CFBlock for a new key.
Subscript(cf, a) == IF a \in DOMAIN cf THEN cf ELSE (a :> DefaultCFBlock) @@ cf

CfAt(x, a) == [x EXCEPT !.cf = Subscript(@, a)]

\* ------------------------------------------------------------- predication
\* b.createBranch(predicated_block_end_); b.setBuildPoint(predicated_block_end_);
\* open_predicated_block_ = false; predicated_block_cond_ = false;
\* predicated_block_end_ = nullptr;
\* ClosePredicatedBlock without "predicated_block_end_ = nullptr".
ClosePredicatedBlockKeepsEnd(x) ==
  [CreateBranch(x, x.end) EXCEPT !.bp = x.end, !.open = FALSE, !.cond = FALSE]

ClosePredicatedBlock(x) ==
  [CreateBranch(x, x.end) EXCEPT
     !.bp = x.end, !.open = FALSE, !.cond = FALSE, !.end = NullBlock]

\* "Close the open predicated block if this instr isn't predicated or the
\* conditions do not match."
\* CloseOnMismatch without the comparison of the conditions.
CloseOnUnpredicatedOnly(x, instr) ==
  IF x.open /\ ~instr.is_predicated THEN ClosePredicatedBlock(x) ELSE x

CloseOnMismatch(x, instr) ==
  IF x.open /\ (~instr.is_predicated \/ instr.predicate_condition # x.cond)
  THEN ClosePredicatedBlock(x)
  ELSE x

\* OpenOnPredicated without "!open_predicated_block_": every predicated
\* instruction branches again.
OpenOnEveryPredicated(x, instr) ==
  IF instr.is_predicated
  THEN LET block == x.nb + 1
           end == x.nb + 2
           loaded == Emit(x, Ev("OpLoad", x.bp, NullBlock, NullBlock, "p0", FALSE))
           merged == Emit(loaded, Ev("OpSelectionMerge", x.bp, end, NullBlock, "", FALSE))
           branched == Emit(merged, Ev("OpBranchConditional", x.bp, block, end,
                                       "p0", instr.predicate_condition))
       IN [branched EXCEPT !.nb = end, !.open = TRUE,
             !.cond = instr.predicate_condition, !.end = end, !.bp = block]
  ELSE x

\* if (!open_predicated_block_ && instr.is_predicated) { ... }
OpenOnPredicated(x, instr) ==
  IF ~x.open /\ instr.is_predicated
  THEN LET block == x.nb + 1
           end == x.nb + 2
           loaded == Emit(x, Ev("OpLoad", x.bp, NullBlock, NullBlock, "p0", FALSE))
           merged == Emit(loaded, Ev("OpSelectionMerge", x.bp, end, NullBlock, "", FALSE))
           branched == Emit(merged, Ev("OpBranchConditional", x.bp, block, end,
                                       "p0", instr.predicate_condition))
       IN [branched EXCEPT !.nb = end, !.open = TRUE,
             !.cond = instr.predicate_condition, !.end = end, !.bp = block]
  ELSE x

\* CloseAfterSetp with the closing block left out.
CloseAfterSetpOmitted(x) == x

\* if (close_predicated_block && open_predicated_block_) { ... }
CloseAfterSetp(x) == IF x.close /\ x.open THEN ClosePredicatedBlock(x) ELSE x

\* ------------------------------------------------------------ operand access
\* LoadFromOperand: access chain and load of the operand, in the build point.
LoadFromOperand(x) ==
  Emit(x, Ev("OpLoad", x.bp, NullBlock, NullBlock, "operand", FALSE))

RECURSIVE LoadOperands(_, _)
LoadOperands(x, n) == IF n = 0 THEN x ELSE LoadFromOperand(LoadOperands(x, n - 1))

\* StoreToResult: nothing for kNone, nothing when no storage pointer is
\* resolved (kPointSize), otherwise one store to the target.
StoreTargets == {"kRegister", "kInterpolant", "kPosition", "kColorTarget", "kDepth"}

StoreToResult(x, target) ==
  IF target \in StoreTargets
  THEN Emit(x, Ev("OpStore", x.bp, NullBlock, NullBlock, "result", FALSE))
  ELSE x

Alu(x, opcode) == Emit(x, Ev("Alu", x.bp, NullBlock, NullBlock, opcode, FALSE))

StoreTo(x, var) == Emit(x, Ev("OpStore", x.bp, NullBlock, NullBlock, var, FALSE))

\* The kill lowering shared by kKillEq..kKillNe and kKillsEq..kKillsOne:
\* continue_block then kill_block are made, the block ends in a conditional
\* branch, the kill block holds OpKill, the continue block is the build point.
KillBody(x, opcode) ==
  LET continue_block == x.nb + 1
      kill_block == x.nb + 2
      compared == Alu(x, opcode)
      branched == Emit(compared, Ev("OpBranchConditional", x.bp, kill_block,
                                    continue_block, "kill", FALSE))
      killed == Emit(branched, Plain("OpKill", kill_block))
  IN [killed EXCEPT !.nb = kill_block, !.bp = continue_block, !.dest = TRUE]

\* ------------------------------------------------------- opcode families
VectorKillOpcodes == {"kKillEq", "kKillGe", "kKillGt", "kKillNe"}
VectorSetpOpcodes == {"kSetpEqPush", "kSetpGePush", "kSetpGtPush", "kSetpNePush"}
VectorPlainOpcodes ==
  {"kAdd", "kCndEq", "kCndGe", "kCndGt", "kDst", "kDp2Add", "kDp3", "kDp4",
   "kFloor", "kFrc", "kMad", "kMax4", "kMax", "kMin", "kMul", "kSeq", "kSge",
   "kSgt", "kSne", "kTrunc"}

ScalarKillOpcodes == {"kKillsEq", "kKillsGe", "kKillsGt", "kKillsNe", "kKillsOne"}
ScalarSetpOpcodes ==
  {"kSetpClr", "kSetpEq", "kSetpGe", "kSetpGt", "kSetpInv", "kSetpNe",
   "kSetpPop", "kSetpRstr"}
ScalarAddressOpcodes == {"kMaxAs", "kMaxAsf"}
ScalarPlainOpcodes ==
  {"kAdds", "kAddsc0", "kAddsc1", "kAddsPrev", "kCos", "kExp", "kFloors",
   "kFrcs", "kLogc", "kLog", "kMaxs", "kMins", "kMuls", "kMulsc0", "kMulsc1",
   "kMulsPrev", "kRcpc", "kRcpf", "kRcp", "kRsqc", "kRsqf", "kRsq", "kSeqs",
   "kSges", "kSgts", "kSnes", "kSin", "kSqrt", "kSubs", "kSubsc0", "kSubsc1",
   "kSubsPrev", "kTruncs"}

SetpOpcodes == VectorSetpOpcodes \cup ScalarSetpOpcodes

\* ------------------------------------------------------------- vector ALU
\* switch (instr.vector_opcode)
VectorBody(x, opcode) ==
  IF opcode \in VectorPlainOpcodes THEN [Alu(x, opcode) EXCEPT !.dest = TRUE]
  ELSE IF opcode = "kCube" THEN x                      \* "TODO:", dest stays 0
  ELSE IF opcode \in VectorKillOpcodes THEN KillBody(x, opcode)
  ELSE IF opcode = "kMaxA"
    THEN [Alu(StoreTo(Alu(x, opcode), "a0"), opcode) EXCEPT !.dest = TRUE]
  ELSE IF opcode \in VectorSetpOpcodes
    THEN [Alu(StoreTo(Alu(x, opcode), "p0"), opcode) EXCEPT
            !.dest = TRUE, !.close = TRUE]
  ELSE CheckAssert(x, FALSE, "assert_unhandled_case(vector_opcode)")

\* assert_not_zero(dest); if (dest) { store pv / ps; StoreToResult }
StoreDest(x, prev, target) ==
  LET checked == CheckAssert(x, x.dest, "assert_not_zero(dest)")
  IN IF x.dest THEN StoreToResult(StoreTo(checked, prev), target) ELSE checked

ProcessVectorAluInstruction(x, instr) ==
  LET loaded == LoadOperands(x, instr.operand_count)
      closed == CloseOnMismatch(loaded, instr)
      opened == OpenOnPredicated(closed, instr)
      body == VectorBody(opened, instr.opcode)
      stored == StoreDest(body, "pv", instr.result_target)
  IN CloseAfterSetp(stored)

\* ------------------------------------------------------------- scalar ALU
\* switch (instr.scalar_opcode)
ScalarBody(x, opcode) ==
  IF opcode \in ScalarPlainOpcodes THEN [Alu(x, opcode) EXCEPT !.dest = TRUE]
  ELSE IF opcode = "kMulsPrev2" THEN x                 \* "TODO: Uh...", dest stays 0
  ELSE IF opcode \in ScalarKillOpcodes THEN KillBody(x, opcode)
  ELSE IF opcode \in ScalarAddressOpcodes
    THEN [Alu(StoreTo(Alu(x, opcode), "a0"), opcode) EXCEPT !.dest = TRUE]
  ELSE IF opcode = "kSetpClr"
    THEN [StoreTo(x, "p0") EXCEPT !.dest = TRUE, !.close = TRUE]
  ELSE IF opcode \in ScalarSetpOpcodes
    THEN [Alu(StoreTo(Alu(x, opcode), "p0"), opcode) EXCEPT
            !.dest = TRUE, !.close = TRUE]
  ELSE CheckAssert(x, FALSE, "assert_unhandled_case(scalar_opcode)")

ProcessScalarAluInstruction(x, instr) ==
  LET loaded == LoadOperands(x, instr.operand_count)
      closed == CloseOnMismatch(loaded, instr)
      opened == OpenOnPredicated(closed, instr)
      body == ScalarBody(opened, instr.opcode)
      stored == StoreDest(body, "ps", instr.result_target)
  IN CloseAfterSetp(stored)

\* ProcessAluInstruction: switch (instr.type)
AluDispatch(x, instr) ==
  IF instr.type = "kNop" THEN Emit(x, Plain("OpNop", x.bp))
  ELSE IF instr.type = "kVector" THEN ProcessVectorAluInstruction(x, instr)
  ELSE ProcessScalarAluInstruction(x, instr)

\* ------------------------------------------------------------------ fetches
VertexFetch(x, instr) ==
  LET checked == CheckAssert(x, shader_type = "vertex", "assert_true(is_vertex_shader())")
      closed == CloseOnMismatch(checked, instr)
      opened == OpenOnPredicated(closed, instr)
      index == LoadFromOperand(opened)
      fetched == Emit(Emit(index, Ev("OpLoad", index.bp, NullBlock, NullBlock,
                                     "vertex_id", FALSE)),
                      Ev("OpLoad", index.bp, NullBlock, NullBlock, "vertex", FALSE))
      selected == Emit(fetched, Ev("OpSelect", fetched.bp, NullBlock, NullBlock,
                                   "vertex", FALSE))
  IN StoreToResult(selected, instr.result_target)

TextureFetch(x, instr) ==
  LET closed == CloseOnMismatch(x, instr)
      opened == OpenOnPredicated(closed, instr)
      src == LoadFromOperand(opened)
      body == IF instr.opcode = "kTextureFetch"
              THEN [Emit(src, Ev("OpImageSample", src.bp, NullBlock, NullBlock,
                                 "texture", FALSE)) EXCEPT !.dest = TRUE]
              ELSE CheckAssert(src, FALSE, "assert_always(fetch_opcode)")
  IN IF body.dest THEN StoreToResult(StoreTo(body, "pv"), instr.result_target)
     ELSE body

\* ------------------------------------------------------------ control flow
\* b.makeReturn(false): OpReturn, then a fresh block with no predecessor
\* becomes the build point.
MakeReturn(x) ==
  [Emit(x, Plain("OpReturn", x.bp)) EXCEPT !.nb = x.nb + 1, !.bp = x.nb + 1]

SizeGuard(x, idx) ==
  CheckAssert(x, Cardinality(DOMAIN x.cf) > idx + 1,
              "assert_true(cf_blocks_.size() > dword_index + 1)")

\* assert_true(cf_blocks_.size() > instr.dword_index + 1);
\* b.createBranch(cf_blocks_[instr.dword_index + 1].block);
BranchToNext(x, idx) ==
  LET guarded == CfAt(SizeGuard(x, idx), idx + 1)
  IN CreateBranch(guarded, guarded.cf[idx + 1].block)

\* auto head = cf_blocks_[instr.dword_index].block; b.setBuildPoint(head);
AtHead(x, idx) ==
  LET looked == CfAt(x, idx) IN SetBuildPoint(looked, looked.cf[idx].block)

\* ExecBranch with the selection merge when next_block.prev_dominates is
\* false.
ExecBranchMergeWhenCleared(x, idx, on, condition) ==
  LET guarded == CfAt(SizeGuard(x, idx), idx + 1)
      body == guarded.nb + 1
      next_block == guarded.cf[idx + 1]
      merged == IF ~next_block.prev_dominates
                THEN Emit(guarded, Ev("OpSelectionMerge", guarded.bp,
                                      next_block.block, NullBlock, "", FALSE))
                ELSE guarded
      branched == Emit(merged, Ev("OpBranchConditional", guarded.bp, body,
                                  next_block.block, on, condition))
  IN [branched EXCEPT !.nb = body, !.bp = body]

\* The conditional and predicated exec: a new body block, the selection merge
\* when next_block.prev_dominates, and the conditional branch.
ExecBranch(x, idx, on, condition) ==
  LET guarded == CfAt(SizeGuard(x, idx), idx + 1)
      body == guarded.nb + 1
      next_block == guarded.cf[idx + 1]
      merged == IF next_block.prev_dominates
                THEN Emit(guarded, Ev("OpSelectionMerge", guarded.bp,
                                      next_block.block, NullBlock, "", FALSE))
                ELSE guarded
      branched == Emit(merged, Ev("OpBranchConditional", guarded.bp, body,
                                  next_block.block, on, condition))
  IN [branched EXCEPT !.nb = body, !.bp = body]

ExecBegin(x, idx, instr) ==
  LET checked == CheckAssert(x, ~x.open, "assert_false(open_predicated_block_)")
      reset == [checked EXCEPT !.open = FALSE, !.cond = FALSE, !.end = NullBlock]
      head == AtHead(reset, idx)
  IN IF instr.type = "kUnconditional" THEN head
     ELSE IF instr.type = "kConditional"
       THEN ExecBranch(Emit(head, Ev("OpLoad", head.bp, NullBlock, NullBlock,
                                     "bool_consts", FALSE)),
                       idx, "bool_consts", instr.condition)
     ELSE ExecBranch(Emit(head, Ev("OpLoad", head.bp, NullBlock, NullBlock,
                                   "p0", FALSE)),
                     idx, "p0", instr.condition)

\* ExecEnd without "if (open_predicated_block_) { ... }".
ExecEndLeavesRegion(x, idx, instr) ==
  IF instr.is_end THEN MakeReturn(x) ELSE BranchToNext(x, idx)

ExecEnd(x, idx, instr) ==
  LET closed == IF x.open THEN ClosePredicatedBlock(x) ELSE x
  IN IF instr.is_end THEN MakeReturn(closed) ELSE BranchToNext(closed, idx)

LoopStart(x, idx) ==
  BranchToNext(EmitUnimplementedTranslationError(AtHead(x, idx)), idx)

LoopEnd(x, idx) ==
  BranchToNext(EmitUnimplementedTranslationError(AtHead(x, idx)), idx)

\* "Unused instruction(?)": assert_always() comes before the error is recorded.
Call(x, idx) ==
  BranchToNext(EmitUnimplementedTranslationError(
                 CheckAssert(AtHead(x, idx), FALSE, "assert_always()")), idx)

Return(x, idx) ==
  BranchToNext(EmitUnimplementedTranslationError(
                 CheckAssert(AtHead(x, idx), FALSE, "assert_always()")), idx)

Jump(x, idx, instr) ==
  LET head == AtHead(x, idx)
  IN IF instr.type = "kUnconditional"
     THEN LET t == CfAt(head, instr.target_address)
          IN CreateBranch(t, t.cf[instr.target_address].block)
     ELSE LET guarded == SizeGuard(head, idx)
              loaded == Emit(guarded, Ev("OpLoad", guarded.bp, NullBlock, NullBlock,
                                         IF instr.type = "kConditional"
                                         THEN "bool_consts" ELSE "p0", FALSE))
              t == CfAt(CfAt(loaded, instr.target_address), idx + 1)
          IN Emit(t, Ev("OpBranchConditional", t.bp,
                        t.cf[instr.target_address].block, t.cf[idx + 1].block,
                        IF instr.type = "kConditional" THEN "bool_consts" ELSE "p0",
                        instr.condition))

Alloc(x, idx, instr) ==
  LET head == AtHead(x, idx)
      checked == IF instr.type = "kVsPosition"
                 THEN CheckAssert(head, shader_type = "vertex",
                                  "assert_true(is_vertex_shader())")
                 ELSE head
  IN BranchToNext(checked, idx)

\* PreProcessControlFlowInstruction
PreProcess(x, cf_index, instr) ==
  LET block == x.nb + 1
      made == IF cf_index \notin DOMAIN x.cf
              THEN (cf_index :> [DefaultCFBlock EXCEPT !.block = block]) @@ x.cf
              ELSE [x.cf EXCEPT ![cf_index].block = block]
      marked == IF instr.opcode = "kCondJmp"
                THEN IF instr.address \notin DOMAIN made
                     THEN (instr.address :> [DefaultCFBlock EXCEPT
                                               !.prev_dominates = FALSE]) @@ made
                     ELSE [made EXCEPT ![instr.address].prev_dominates = FALSE]
                ELSE made
  IN [x EXCEPT !.nb = block, !.cf = marked]

\* ProcessControlFlowInstructionBegin
CfBegin(x, cf_index) ==
  IF cf_index = 0
  THEN LET looked == CfAt(x, cf_index)
       IN CreateBranch(looked, looked.cf[cf_index].block)
  ELSE x

\* ------------------------------------------------------------------ inputs
\* What the pre-pass reads of a control-flow instruction: whether its opcode
\* is kCondJmp (every jump) and the jump's address.
CfAddresses == 0 .. (MaxCF - 1)

PreInstrs ==
  {[opcode |-> "other", address |-> 0]}
    \cup {[opcode |-> "kCondJmp", address |-> a] : a \in CfAddresses}

\* An unconditional instruction carries no condition: it is read as FALSE.
ExecInstrs ==
  {[type |-> t, condition |-> c, is_end |-> e] :
     t \in {"kUnconditional", "kConditional", "kPredicated"},
     c \in BOOLEAN, e \in BOOLEAN}
    \ {i \in [type : {"kUnconditional"}, condition : {TRUE}, is_end : BOOLEAN] : TRUE}

JumpTypes ==
  {[type |-> t, condition |-> c] :
     t \in {"kUnconditional", "kConditional", "kPredicated"}, c \in BOOLEAN}
    \ {[type |-> "kUnconditional", condition |-> TRUE]}

AllocTypes == {"kNone", "kVsPosition", "kVsInterpolators", "kMemory"}

Predications ==
  {[is_predicated |-> FALSE, predicate_condition |-> FALSE],
   [is_predicated |-> TRUE, predicate_condition |-> FALSE],
   [is_predicated |-> TRUE, predicate_condition |-> TRUE]}

\* Every instruction writes a register; a plain add and a predicate setter
\* are also presented with no destination.
ResultTargets(opcode) ==
  IF opcode \in {"kAdd", "kSetpEq"} THEN {"kNone", "kRegister"} ELSE {"kRegister"}

\* The opcodes the instruction stream draws from: one or two of each family.
VectorOpcodes == {"kAdd", "kCube", "kKillEq", "kSetpEqPush", "kMaxA"}
ScalarOpcodes == {"kAdds", "kMulsPrev2", "kKillsEq", "kSetpEq", "kSetpClr"}
FetchOpcodes == {"kTextureFetch", "kGetTextureWeights"}

Instr(type, opcode, p, operand_count, target) ==
  [type |-> type, opcode |-> opcode, is_predicated |-> p.is_predicated,
   predicate_condition |-> p.predicate_condition,
   operand_count |-> operand_count, result_target |-> target]

AluInstrs ==
  UNION {{Instr("kVector", o, p, 2, t) : p \in Predications, t \in ResultTargets(o)} :
           o \in VectorOpcodes}
    \cup UNION {{Instr("kScalar", o, p, 1, t) : p \in Predications,
                                                t \in ResultTargets(o)} :
                  o \in ScalarOpcodes}
    \cup {Instr("kNop", "nop", p, 0, "kNone") : p \in Predications}

VertexFetchInstrs ==
  {Instr("vfetch", "kVertexFetch", p, 2, "kRegister") : p \in Predications}

TextureFetchInstrs ==
  {Instr("tfetch", o, p, 2, "kRegister") : o \in FetchOpcodes, p \in Predications}

\* ------------------------------------------------------------------ actions
\* Whether the build compiles the assert_* macros in.  Until an assertion has
\* failed the two builds behave alike; a run that went on past a failed
\* assertion is one of a build without them.
Asserts == IF build = "release" THEN {FALSE} ELSE BOOLEAN

\* b.createBranch, b.createSelectionMerge and b.createConditionalBranch
\* dereference the blocks they are given, and every instruction is added to
\* the build point: a null or dangling block there is undefined behaviour.
InvalidBlock(b) == b = NullBlock \/ b = Dangling

Dereferences(e) ==
  {e.blk}
    \cup (IF e.op \in {"OpBranch", "OpSelectionMerge", "OpBranchConditional"}
          THEN {e.t} ELSE {})
    \cup (IF e.op = "OpBranchConditional" THEN {e.f} ELSE {})

Undefined(out) == {k \in DOMAIN out : \E b \in Dereferences(out[k]) : InvalidBlock(b)}

FirstUndefined(out) == CHOOSE k \in Undefined(out) : \A j \in Undefined(out) : k <= j

\* A callback returns with the handler's effects, or the process has ended
\* inside it: at a failed assertion in a build with assertions, or (one of the
\* outcomes of the undefined behaviour, the other being that the process goes
\* on with the block recorded as given) at the first use of an invalid block.
Commit(call, instr, x, next_phase) ==
  /\ build' = IF x.violated # {} /\ ~x.asserts THEN "release" ELSE build
  /\ \E crash \in (IF ~Halted(x) /\ Undefined(x.out) # {} THEN BOOLEAN ELSE {FALSE}) :
       IF Halted(x) \/ crash
       THEN /\ phase' = "aborted"
            /\ step' = Step(call, instr,
                            IF crash THEN SubSeq(x.out, 1, FirstUndefined(x.out))
                            ELSE x.out,
                            x.violated, x.unimplemented)
            /\ UNCHANGED <<builder_, cf_blocks_, open_predicated_block_,
                           predicated_block_cond_, predicated_block_end_>>
       ELSE /\ phase' = next_phase
            /\ step' = Step(call, instr, x.out, x.violated, x.unimplemented)
            /\ builder_' = [builder_ EXCEPT !.build_point = x.bp, !.n_blocks = x.nb]
            /\ cf_blocks_' = x.cf
            /\ open_predicated_block_' = x.open
            /\ predicated_block_cond_' = x.cond
            /\ predicated_block_end_' = x.end

BindingKeys(n) == {<<i, 0>> : i \in 1 .. n}

RECURSIVE AttribIds(_)
AttribIds(n) == IF n = 0 THEN <<>> ELSE Append(AttribIds(n - 1), <<"vf", n>>)

StageIds(st, n) ==
  IF st = "vertex"
  THEN AttribIds(n) \o <<<<"interpolators", 0>>, <<"gl_Position", 0>>,
                         <<"gl_VertexId", 0>>>>
  ELSE <<<<"interpolators", 0>>, <<"oC", 0>>, <<"gl_FragDepth", 0>>,
         <<"gl_FragCoord", 0>>, <<"gl_PointCoord", 0>>>>

\* The function entry block is block 1; the pixel prologue's
\* spv::Builder::If adds a then block and a merge block and ends in the merge.
PrologueBlocks(st) == IF st = "vertex" THEN 1 ELSE 3

\* StartTranslation: a new builder replaces (and destroys) the previous one;
\* nothing else of the instance is reset.
StartTranslationBody(st, n) ==
  /\ builder_' = [live |-> TRUE, build_point |-> PrologueBlocks(st),
                  n_blocks |-> PrologueBlocks(st)]
  /\ shader_type' = st
  /\ interface_ids_' = interface_ids_ \o StageIds(st, n)
  /\ vertex_binding_map_' =
       IF st = "vertex" THEN vertex_binding_map_ \cup BindingKeys(n)
       ELSE vertex_binding_map_
  /\ cf_blocks_' = DangleBlocks(cf_blocks_)
  /\ predicated_block_end_' = DanglePtr(predicated_block_end_)
  /\ UNCHANGED <<open_predicated_block_, predicated_block_cond_, build,
                 values>>
  /\ prog' = <<>>
  /\ pc' = 0
  /\ exec_instr' = NoInstr
  /\ n_instr' = 0
  /\ translations' = translations + 1
  /\ phase' = "pre"
  /\ step' = Step("StartTranslation", [type |-> st], <<>>, {}, FALSE)

StartTranslation ==
  /\ phase = "idle"
  /\ translations = 0
  /\ \E st \in {"vertex", "pixel"} :
       \E n \in 0 .. (IF st = "vertex" THEN MaxBindings ELSE 0) :
         StartTranslationBody(st, n)

Driver == <<shader_type, translations, interface_ids_,
            vertex_binding_map_, values>>

PreProcessControlFlowInstruction ==
  /\ phase = "pre"
  /\ Len(prog) < MaxCF
  /\ \E instr \in PreInstrs, a \in Asserts :
       /\ prog' = Append(prog, instr)
       /\ Commit("PreProcessControlFlowInstruction", instr,
                 PreProcess(Ctx(a), Len(prog), instr), "pre")
  /\ UNCHANGED <<Driver, pc, exec_instr, n_instr>>

ProcessControlFlowInstructionBegin ==
  /\ \/ phase = "pre" /\ Len(prog) >= 1
     \/ phase = "cf_begin"
  /\ \E a \in Asserts :
       Commit("ProcessControlFlowInstructionBegin", NoInstr, CfBegin(Ctx(a), pc), "cf")
  /\ UNCHANGED <<Driver, prog, pc, exec_instr, n_instr>>

IsJump == prog[pc + 1].opcode = "kCondJmp"

ProcessControlFlowNopInstruction ==
  /\ phase = "cf" /\ ~IsJump
  /\ \E a \in Asserts :
       Commit("ProcessControlFlowNopInstruction", NoInstr, Ctx(a), "cf_end")
  /\ UNCHANGED <<Driver, prog, pc, exec_instr, n_instr>>

ProcessExecInstructionBegin ==
  /\ phase = "cf" /\ ~IsJump
  /\ \E instr \in ExecInstrs, a \in Asserts :
       /\ exec_instr' = [type |-> "exec", is_end |-> instr.is_end]
       /\ Commit("ProcessExecInstructionBegin", instr, ExecBegin(Ctx(a), pc, instr), "exec")
  /\ n_instr' = 0
  /\ UNCHANGED <<Driver, prog, pc>>

\* ProcessAluInstruction on one instruction of instrs.
AluStep(instrs) ==
  /\ phase = "exec" /\ n_instr < MaxInstrs
  /\ \E instr \in instrs, a \in Asserts :
       Commit("ProcessAluInstruction", instr, AluDispatch(Ctx(a), instr), "exec")
  /\ n_instr' = n_instr + 1
  /\ UNCHANGED <<Driver, prog, pc, exec_instr>>

ProcessAluInstruction == AluStep(AluInstrs)

ProcessVertexFetchInstruction ==
  /\ phase = "exec" /\ n_instr < MaxInstrs
  /\ shader_type = "vertex" /\ vertex_binding_map_ # {}
  /\ \E instr \in VertexFetchInstrs, a \in Asserts :
       Commit("ProcessVertexFetchInstruction", instr, VertexFetch(Ctx(a), instr), "exec")
  /\ n_instr' = n_instr + 1
  /\ UNCHANGED <<Driver, prog, pc, exec_instr>>

ProcessTextureFetchInstruction ==
  /\ phase = "exec" /\ n_instr < MaxInstrs
  /\ \E instr \in TextureFetchInstrs, a \in Asserts :
       Commit("ProcessTextureFetchInstruction", instr, TextureFetch(Ctx(a), instr), "exec")
  /\ n_instr' = n_instr + 1
  /\ UNCHANGED <<Driver, prog, pc, exec_instr>>

ProcessExecInstructionEnd ==
  /\ phase = "exec"
  /\ \E a \in Asserts :
       Commit("ProcessExecInstructionEnd", exec_instr,
              ExecEnd(Ctx(a), pc, exec_instr), "cf_end")
  /\ UNCHANGED <<Driver, prog, pc, exec_instr, n_instr>>

ProcessLoopStartInstruction ==
  /\ phase = "cf" /\ ~IsJump
  /\ \E a \in Asserts :
       Commit("ProcessLoopStartInstruction", NoInstr, LoopStart(Ctx(a), pc), "cf_end")
  /\ UNCHANGED <<Driver, prog, pc, exec_instr, n_instr>>

ProcessLoopEndInstruction ==
  /\ phase = "cf" /\ ~IsJump
  /\ \E a \in Asserts :
       Commit("ProcessLoopEndInstruction", NoInstr, LoopEnd(Ctx(a), pc), "cf_end")
  /\ UNCHANGED <<Driver, prog, pc, exec_instr, n_instr>>

ProcessCallInstruction ==
  /\ phase = "cf" /\ ~IsJump
  /\ \E a \in Asserts :
       Commit("ProcessCallInstruction", NoInstr, Call(Ctx(a), pc), "cf_end")
  /\ UNCHANGED <<Driver, prog, pc, exec_instr, n_instr>>

ProcessReturnInstruction ==
  /\ phase = "cf" /\ ~IsJump
  /\ \E a \in Asserts :
       Commit("ProcessReturnInstruction", NoInstr, Return(Ctx(a), pc), "cf_end")
  /\ UNCHANGED <<Driver, prog, pc, exec_instr, n_instr>>

ProcessJumpInstruction ==
  /\ phase = "cf" /\ IsJump
  /\ \E j \in JumpTypes, a \in Asserts :
       LET instr == [type |-> j.type, condition |-> j.condition,
                     target_address |-> prog[pc + 1].address]
       IN Commit("ProcessJumpInstruction", instr, Jump(Ctx(a), pc, instr), "cf_end")
  /\ UNCHANGED <<Driver, prog, pc, exec_instr, n_instr>>

ProcessAllocInstruction ==
  /\ phase = "cf" /\ ~IsJump
  /\ \E t \in AllocTypes, a \in Asserts :
       Commit("ProcessAllocInstruction", [type |-> t],
              Alloc(Ctx(a), pc, [type |-> t]), "cf_end")
  /\ UNCHANGED <<Driver, prog, pc, exec_instr, n_instr>>

\* The decoder stops after the instruction that ends the program (an exec
\* with is_end) or after the last control-flow instruction.
EndsProgram == exec_instr.type = "exec" /\ exec_instr.is_end

ProcessControlFlowInstructionEnd ==
  /\ phase = "cf_end"
  /\ pc' = pc + 1
  /\ exec_instr' = NoInstr
  /\ n_instr' = 0
  /\ \E a \in Asserts :
       Commit("ProcessControlFlowInstructionEnd", NoInstr, Ctx(a),
              IF EndsProgram \/ pc + 1 = Len(prog) THEN "done" ELSE "cf_begin")
  /\ UNCHANGED <<Driver, prog>>

\* CompleteTranslation: the closing branch and return of translated_main,
\* main() with the epilogue, then the cleanup: builder_.reset() and
\* interface_ids_.clear().
Complete(x) ==
  LET checked == CheckAssert(x, ~x.open, "assert_false(open_predicated_block_)")
      block == checked.nb + 1
      branched == CreateBranch([checked EXCEPT !.nb = block], block)
      returned == MakeReturn(branched)
      main == [returned EXCEPT !.nb = returned.nb + 1, !.bp = returned.nb + 1]
  IN MakeReturn(Emit(main, Plain("Epilogue", main.bp)))

CompleteTranslation ==
  /\ phase = "done"
  /\ \E a \in Asserts :
     LET x == Complete(Ctx(a))
     IN /\ step' = Step("CompleteTranslation", NoInstr, x.out, x.violated, FALSE)
        /\ build' = IF x.violated # {} /\ ~a THEN "release" ELSE build
        /\ IF Halted(x)
           THEN /\ phase' = "aborted"
                /\ UNCHANGED <<builder_, cf_blocks_, predicated_block_end_,
                               interface_ids_>>
           ELSE /\ phase' = "idle"
                /\ builder_' = NoBuilder
                /\ interface_ids_' = <<>>
                /\ cf_blocks_' = DangleBlocks(cf_blocks_)
                /\ predicated_block_end_' = DanglePtr(predicated_block_end_)
  /\ UNCHANGED <<shader_type, translations, vertex_binding_map_,
                 prog, pc, exec_instr, n_instr, open_predicated_block_,
                 predicated_block_cond_, values>>

Next ==
  \/ StartTranslation
  \/ PreProcessControlFlowInstruction
  \/ ProcessControlFlowInstructionBegin
  \/ ProcessControlFlowNopInstruction
  \/ ProcessExecInstructionBegin
  \/ ProcessAluInstruction
  \/ ProcessVertexFetchInstruction
  \/ ProcessTextureFetchInstruction
  \/ ProcessExecInstructionEnd
  \/ ProcessLoopStartInstruction
  \/ ProcessLoopEndInstruction
  \/ ProcessCallInstruction
  \/ ProcessReturnInstruction
  \/ ProcessJumpInstruction
  \/ ProcessAllocInstruction
  \/ ProcessControlFlowInstructionEnd
  \/ CompleteTranslation

\* One translation on a freshly constructed instance, callbacks in decoder
\* order.
Spec == Init /\ [][Next]_vars

\* ------------------------------------------------------- instance reuse
\* StartTranslation called again on the same instance: after
\* CompleteTranslation, or with the previous translation abandoned in the
\* middle of an exec group (the caller made no further callback).
StartTranslationAgain ==
  /\ translations >= 1 /\ translations < MaxTranslations
  /\ phase \in {"idle", "exec"}
  /\ \E st \in {"vertex", "pixel"} : StartTranslationBody(st, 0)

\* The exec groups of the reuse specification hold vector adds only.
ReuseAluInstrs == {Instr("kVector", "kAdd", p, 2, "kRegister") : p \in Predications}

ReuseAluInstruction == AluStep(ReuseAluInstrs)

NextReuse ==
  \/ StartTranslation
  \/ StartTranslationAgain
  \/ PreProcessControlFlowInstruction
  \/ ProcessControlFlowInstructionBegin
  \/ ProcessExecInstructionBegin
  \/ ReuseAluInstruction
  \/ ProcessExecInstructionEnd
  \/ ProcessJumpInstruction
  \/ ProcessControlFlowInstructionEnd
  \/ CompleteTranslation

SpecReuse == Init /\ [][NextReuse]_vars

\* ------------------------------------------------------- reading a step
InstrCalls ==
  {"ProcessAluInstruction", "ProcessVertexFetchInstruction",
   "ProcessTextureFetchInstruction"}

\* The instructions that run the close / open code of the predication
\* context: every ALU and fetch instruction but the nop-type ALU.
RegionInstr(i) == i.type \in {"kVector", "kScalar", "vfetch", "tfetch"}

IsSetp(i) == i.type \in {"kVector", "kScalar"} /\ i.opcode \in SetpOpcodes

IsKill(i) ==
  i.type \in {"kVector", "kScalar"}
    /\ i.opcode \in VectorKillOpcodes \cup ScalarKillOpcodes

IsMerge(e) == e.op = "OpSelectionMerge"
IsP0Branch(e) == e.op = "OpBranchConditional" /\ e.on = "p0"
IsP0Load(e) == e.op = "OpLoad" /\ e.on = "p0"
IsBranch(e) == e.op = "OpBranch"
IsP0Store(e) == e.op = "OpStore" /\ e.on = "p0"
IsPrevStore(e) == e.op = "OpStore" /\ e.on \in {"pv", "ps"}
IsOperandLoad(e) == e.op = "OpLoad" /\ e.on = "operand"

Where(out, P(_)) == {k \in DOMAIN out : P(out[k])}
Count(out, P(_)) == Cardinality(Where(out, P))
BranchesTo(out, b) == {k \in DOMAIN out : IsBranch(out[k]) /\ out[k].t = b}

\* The region is opened at position k of out: the load of p0, the selection
\* merge naming the merge block, the conditional branch on p0 with condition
\* c whose false target is the merge block.
OpensAt(out, k, c) ==
  /\ k >= 2 /\ k + 1 <= Len(out)
  /\ IsP0Load(out[k - 1])
  /\ IsMerge(out[k])
  /\ IsP0Branch(out[k + 1]) /\ out[k + 1].c = c /\ out[k + 1].f = out[k].t

\* ------------------------------------------------------------------- C1
\* A predicated vector, scalar or fetch instruction continues the open region
\* when its condition is the region's.
Continues(i) ==
  open_predicated_block_ /\ i.is_predicated
    /\ i.predicate_condition = predicated_block_cond_

C1_Opening ==
  LET i == step'.instr
      out == step'.out
  IN (step'.call \in InstrCalls /\ RegionInstr(i) /\ i.is_predicated) =>
       /\ Count(out, IsMerge) = (IF Continues(i) THEN 0 ELSE 1)
       /\ Count(out, IsP0Branch) = (IF Continues(i) THEN 0 ELSE 1)
       /\ ~Continues(i) =>
            \E k \in DOMAIN out : OpensAt(out, k, i.predicate_condition)
       /\ Continues(i) =>
            /\ builder_'.n_blocks - builder_.n_blocks
                 = (IF IsKill(i) /\ phase' # "aborted" THEN 2 ELSE 0)
            /\ Count(out, IsBranch) = (IF IsSetp(i) THEN 1 ELSE 0)

C1_Closing ==
  (open_predicated_block_ /\ phase' # "aborted") =>
    LET n == Cardinality(BranchesTo(step'.out, predicated_block_end_))
    IN IF open_predicated_block_' /\ predicated_block_end_' = predicated_block_end_
       THEN n = 0
       ELSE n = 1

\* C1 (as amended): a predicated vector, scalar or fetch instruction emits
\* one selection merge and one conditional branch on p0 exactly when no region
\* with its condition is open, and none (and no region block, and no branch
\* unless it sets the predicate) when it continues the open region; a region
\* receives exactly one branch to its merge block, in the step that closes it.
C1_OneBranchPerRegion == [][C1_Opening /\ C1_Closing]_vars

\* The second instruction of an exec group continuing the region the first
\* one opened.
C1_Witness ==
  /\ phase = "exec" /\ n_instr = 2
  /\ step.call = "ProcessAluInstruction" /\ step.instr.type = "kScalar"
  /\ step.instr.is_predicated
  /\ open_predicated_block_
  /\ predicated_block_cond_ = step.instr.predicate_condition
  /\ Count(step.out, IsMerge) = 0 /\ Count(step.out, IsBranch) = 0
  /\ Len(step.out) > 0

\* C1 as stated, for instructions of whatever opcode: the instruction after a
\* predicated instruction, predicated with the same condition, emits no
\* selection merge and no conditional branch on p0.
C1_AsStated ==
  [][(/\ step.call \in InstrCalls /\ step'.call \in InstrCalls
      /\ n_instr' = n_instr + 1
      /\ step.instr.is_predicated /\ step'.instr.is_predicated
      /\ step.instr.predicate_condition = step'.instr.predicate_condition
      /\ phase' # "aborted")
       => /\ Count(step'.out, IsMerge) = 0
          /\ Count(step'.out, IsP0Branch) = 0]_vars

\* ------------------------------------------------------------------- C2
OpenAssert == "assert_false(open_predicated_block_)"

\* C2: in decoder order no region is open in any state in which
\* ProcessExecInstructionBegin or CompleteTranslation can be entered, and the
\* assert_false(open_predicated_block_) of neither has failed.
C2_NoRegionAtEntry ==
  /\ phase \in {"idle", "pre", "cf_begin", "cf", "cf_end", "done"}
       => ~open_predicated_block_
  /\ step.call \in {"ProcessExecInstructionBegin", "CompleteTranslation"}
       => OpenAssert \notin step.violated

\* The second control-flow instruction is an exec entered after a first one in
\* which blocks were made (a region or a kill), with no assertion failed.
C2_Witness ==
  /\ step.call = "ProcessExecInstructionBegin" /\ phase = "exec" /\ pc = 1
  /\ step.instr.type = "kUnconditional"
  /\ step.violated = {}
  /\ builder_.n_blocks >= PrologueBlocks(shader_type) + Len(prog) + 2

\* ------------------------------------------------------------------- C3
\* C3: between the instruction callbacks of an exec group, a closed
\* predication context has a null merge block and a false condition, and an
\* open one has a live merge block that is neither a prologue block nor a
\* block of the pre-pass; when the last instruction opened the region, it is
\* the block its selection merge names.
C3_PredicationContext ==
  phase = "exec" =>
    /\ ~open_predicated_block_
         => predicated_block_end_ = NullBlock /\ predicated_block_cond_ = FALSE
    /\ open_predicated_block_
         => /\ IsLive(predicated_block_end_)
            /\ predicated_block_end_ > PrologueBlocks(shader_type) + Len(prog)
            /\ \A a \in DOMAIN cf_blocks_ :
                 cf_blocks_[a].block # predicated_block_end_
            /\ predicated_block_end_ # builder_.build_point
            /\ (step.call \in InstrCalls /\ Where(step.out, IsMerge) # {})
                 => \A k \in Where(step.out, IsMerge) :
                      step.out[k].t = predicated_block_end_

\* A region open between two instruction callbacks: the second instruction,
\* a vertex fetch, closed the region of the first and opened its own.
C3_Witness ==
  /\ phase = "exec" /\ n_instr = 2
  /\ step.call = "ProcessVertexFetchInstruction"
  /\ open_predicated_block_
  /\ Count(step.out, IsMerge) = 1 /\ Count(step.out, IsBranch) = 1

\* ------------------------------------------------------------------- C4
Mismatch(i) ==
  open_predicated_block_
    /\ (~i.is_predicated \/ i.predicate_condition # predicated_block_cond_)

C4_Step ==
  LET i == step'.instr
      out == step'.out
      loads == IF i.type \in {"kVector", "kScalar"} THEN i.operand_count ELSE 0
      k == loads + 1
  IN (step'.call \in InstrCalls /\ RegionInstr(i) /\ Mismatch(i)) =>
       /\ Len(out) >= k
       /\ \A j \in 1 .. loads :
            IsOperandLoad(out[j]) /\ out[j].blk = builder_.build_point
       /\ IsBranch(out[k]) /\ out[k].blk = builder_.build_point
       /\ out[k].t = predicated_block_end_
       /\ \A j \in (k + 1) .. Len(out) : out[j].blk # builder_.build_point
       /\ Len(out) > k => out[k + 1].blk = predicated_block_end_
       /\ phase' # "aborted" =>
            IF i.is_predicated /\ ~IsSetp(i)
            THEN /\ open_predicated_block_'
                 /\ predicated_block_cond_' = i.predicate_condition
                 /\ predicated_block_end_' # predicated_block_end_
                 /\ predicated_block_end_' > builder_.n_blocks
            ELSE ~open_predicated_block_'

First(S) == CHOOSE k \in S : \A j \in S : k <= j
Last(S) == CHOOSE k \in S : \A j \in S : j <= k

C5_Step ==
  LET i == step'.instr
      out == step'.out
      p0 == Where(out, IsP0Store)
      prev == Where(out, IsPrevStore)
      brs == Where(out, IsBranch)
  IN (open_predicated_block_ /\ step'.call = "ProcessAluInstruction" /\ IsSetp(i)) =>
       /\ ~open_predicated_block_' /\ predicated_block_end_' = NullBlock
       /\ Cardinality(p0) = 1 /\ Cardinality(prev) = 1
       /\ First(p0) < First(prev)
       /\ BranchesTo(out, predicated_block_end_) # {}
       /\ IF Continues(i)
          THEN /\ brs = {Len(out)}
               /\ out[Len(out)].t = predicated_block_end_
               /\ First(prev) < Len(out)
          ELSE /\ First(brs) < First(p0)
               /\ out[First(brs)].t = predicated_block_end_
               /\ IF i.is_predicated
                  THEN /\ Cardinality(brs) = 2
                       /\ Last(brs) = Len(out)
                       /\ out[Len(out)].t # predicated_block_end_
                  ELSE Cardinality(brs) = 1

C5_Reopen ==
  (/\ step.call = "ProcessAluInstruction" /\ IsSetp(step.instr)
   /\ step'.call \in InstrCalls /\ n_instr' = n_instr + 1
   /\ RegionInstr(step'.instr) /\ step'.instr.is_predicated)
    => \E k \in DOMAIN step'.out :
         OpensAt(step'.out, k, step'.instr.predicate_condition)

\* C5 (as amended): a predicate setter processed while a region is open
\* leaves no region open.  Predicated with the region's condition it is
\* emitted in the region: the store to p0, the store to pv / ps and the
\* result, then the one branch to the merge block.  Unpredicated or predicated
\* with the other condition, the branch to the open region's merge block comes
\* before its store to p0 (and, predicated, its own region is opened and
\* closed after its stores).  A predicated instruction after a predicate
\* setter opens a region, loading p0 again.
C5_SetpClosesRegion == [][C5_Step /\ C5_Reopen]_vars

\* A predicate setter that continued the region and closed it after its stores.
C5_Witness ==
  /\ phase = "exec" /\ n_instr = 2
  /\ step.call = "ProcessAluInstruction" /\ IsSetp(step.instr)
  /\ step.instr.is_predicated
  /\ Count(step.out, IsMerge) = 0
  /\ Count(step.out, IsBranch) = 1
  /\ IsBranch(step.out[Len(step.out)])
  /\ ~open_predicated_block_

\* C5 as stated: every predicate setter processed while a region is open
\* emits, in this order, the store to p0, the store to pv / ps and the branch
\* to that region's merge block.
C5_AsStated ==
  [][(open_predicated_block_ /\ step'.call = "ProcessAluInstruction"
        /\ IsSetp(step'.instr))
       => \E p, d, b \in DOMAIN step'.out :
            /\ p < d /\ d < b
            /\ IsP0Store(step'.out[p])
            /\ IsPrevStore(step'.out[d])
            /\ IsBranch(step'.out[b])
            /\ step'.out[b].t = predicated_block_end_]_vars

\* ------------------------------------------------------------------- C6
\* C6: StartTranslation on an instance whose region is still open ends in a
\* failed assertion.  (StartTranslation leaves open_predicated_block_ as it
\* found it.)
C6_StaleRegionDetected ==
  (step.call = "StartTranslation" /\ open_predicated_block_)
    => (phase = "aborted" \/ step.violated # {})

\* ------------------------------------------------------------------- C7
HandlerCalls ==
  {"ProcessExecInstructionBegin", "ProcessExecInstructionEnd",
   "ProcessLoopStartInstruction", "ProcessLoopEndInstruction",
   "ProcessCallInstruction", "ProcessReturnInstruction",
   "ProcessJumpInstruction", "ProcessAllocInstruction"}

\* C7: once the pre-pass has seen every control-flow instruction, every
\* branch a control-flow handler emits targets a non-null block, the
\* fallthrough of the last instruction included.
C7_BranchTargets ==
  step.call \in HandlerCalls =>
    \A k \in DOMAIN step.out :
      /\ IsBranch(step.out[k]) => step.out[k].t # NullBlock
      /\ step.out[k].op = "OpBranchConditional"
           => step.out[k].t # NullBlock /\ step.out[k].f # NullBlock

\* ------------------------------------------------------------------- C8
\* C8: when CompleteTranslation has returned, the builder is discarded, the
\* interface ids are empty and the block map and the vertex binding map are
\* empty.
C8_FullReset ==
  (step.call = "CompleteTranslation" /\ phase = "idle") =>
    /\ builder_ = NoBuilder
    /\ interface_ids_ = <<>>
    /\ cf_blocks_ = EmptyMap
    /\ vertex_binding_map_ = {}

\* ------------------------------------------------------------------ C10
Unimplemented(call, i) ==
  \/ call \in {"ProcessLoopStartInstruction", "ProcessLoopEndInstruction",
               "ProcessCallInstruction", "ProcessReturnInstruction"}
  \/ call = "ProcessAluInstruction" /\ i.type = "kVector" /\ i.opcode = "kCube"
  \/ call = "ProcessAluInstruction" /\ i.type = "kScalar" /\ i.opcode = "kMulsPrev2"
  \/ call = "ProcessTextureFetchInstruction" /\ i.opcode # "kTextureFetch"

\* C10: every unimplemented construct whose handler has returned has recorded
\* the unimplemented-translation error: none completes without it.
C10_MarkerRecorded ==
  (Unimplemented(step.call, step.instr) /\ phase # "aborted")
    => step.unimplemented

\* ================================================================ values
\* What the emitted instructions compute.  A float is modelled in tenths:
\* One is the constant 1.0f, 5 is 0.5f, -15 is -1.5f.
One == 10

FMax(a, b) == IF a > b THEN a ELSE b
FMin(a, b) == IF a < b THEN a ELSE b

\* GLSL.std.450 FClamp(x, minVal, maxVal) = min(max(x, minVal), maxVal),
\* applied lane by lane.
FClamp(v, lo, hi) == [i \in 1 .. Len(v) |-> FMin(FMax(v[i], lo), hi)]

\* OpVectorShuffle: lane i of the result is component operands[i] (counted
\* from 0) of the two vectors laid end to end.
VectorShuffle(v1, v2, operands) ==
  [i \in 1 .. Len(operands) |-> (v1 \o v2)[operands[i] + 1]]

\* Index of a swizzle source in the shuffle of (value, vec2(0.0, 1.0)).
SwizzleIndex(swiz) ==
  CASE swiz = "kX" -> 0
    [] swiz = "kY" -> 1
    [] swiz = "kZ" -> 2
    [] swiz = "kW" -> 3
    [] swiz = "k0" -> 4
    [] swiz = "k1" -> 5

ZeroOne == <<0, One>>

XYZW == <<"kX", "kY", "kZ", "kW">>

\* ------------------------------------------------------- StoreToResult
HasAnyWrites(result) == \E i \in 1 .. 4 : result.write_mask[i]
HasAllWrites(result) == \A i \in 1 .. 4 : result.write_mask[i]
IsStandardSwizzle(result) == result.components = XYZW

\* Widening of the source to the storage type: a scalar is smeared, a
\* shorter vector is followed by zeroes.
ConvertToStorage(source, n_dst) ==
  IF Len(source) = n_dst THEN source
  ELSE IF Len(source) = 1 THEN [i \in 1 .. n_dst |-> source[1]]
  ELSE source \o [i \in 1 .. n_dst - Len(source) |-> 0]

\* Shuffle operands of the result swizzle: lanes that are not written take
\* component 0.
ResultSwizzleOperands(result) ==
  [i \in 1 .. 4 |-> IF ~result.write_mask[i] THEN 0
                    ELSE SwizzleIndex(result.components[i])]

WriteMaskIgnored(result, n_source) == [i \in 1 .. 4 |-> i - 1]

\* Shuffle operands of the write mask: lane i of the source when written,
\* lane i of the loaded storage value otherwise.
WriteMaskOperands(result, n_source) ==
  [i \in 1 .. 4 |-> IF result.write_mask[i] THEN i - 1 ELSE n_source + (i - 1)]

\* The value a four-lane storage location holds after StoreToResult, given
\* the value it held before.
StoredValue(source_value, held, result) ==
  IF result.storage_target = "kNone" \/ ~HasAnyWrites(result) THEN held
  ELSE
    LET storage_value == held
        clamped == IF result.is_clamped THEN FClamp(source_value, 0, One)
                   ELSE source_value
        converted == ConvertToStorage(clamped, 4)
        swizzled == IF ~IsStandardSwizzle(result)
                    THEN VectorShuffle(converted, ZeroOne,
                                       ResultSwizzleOperands(result))
                    ELSE converted
    IN IF ~HasAllWrites(result)
       THEN VectorShuffle(swizzled, storage_value,
                          WriteMaskOperands(result, Len(swizzled)))
       ELSE swizzled

\* Inputs of the store: sources of one to four lanes, below, inside and
\* above [0, 1]; held values outside [0, 1]; every write mask.
SourceLanes == {-5, 5, 15}
Vectors(n, S) == [1 .. n -> S]
StoreSources == UNION {Vectors(n, SourceLanes) : n \in 1 .. 4}
HeldValues == {<<-20, 30, -20, 30>>, <<12, -3, 25, -7>>}
ResultSwizzles == {XYZW, <<"kW", "kZ", "kY", "kX">>, <<"k1", "kX", "kX", "k0">>}

StoreInputs ==
  [source : StoreSources, held : HeldValues,
   result : [storage_target : {"kRegister", "kNone"},
             write_mask : Vectors(4, BOOLEAN),
             components : ResultSwizzles,
             is_clamped : BOOLEAN]]

Given(fn, inputs) ==
  {[fn |-> fn, in |-> i, out |-> <<>>, done |-> FALSE] : i \in inputs}

Computed(out) == [values EXCEPT !.out = out, !.done = TRUE]

InitStore == Constructed /\ values \in Given("StoreToResult", StoreInputs)

RunStoreToResult ==
  /\ values.fn = "StoreToResult" /\ ~values.done
  /\ values' = Computed(StoredValue(values.in.source, values.in.held,
                                    values.in.result))
  /\ UNCHANGED translator

\* One store of a value into a four-lane storage location.
SpecStore == InitStore /\ [][RunStoreToResult]_vars

\* C11: a store of a four-lane value under the identity swizzle and a write
\* mask with at least one bit leaves every lane whose mask bit is clear at
\* the value held before the store, and sets every lane whose bit is set to
\* lane i of the source, clamped to [0, 1] when is_clamped; the clamp never
\* changes a lane whose bit is clear.
C11_MaskedStore ==
  (/\ values.fn = "StoreToResult" /\ values.done
   /\ values.in.result.storage_target # "kNone"
   /\ values.in.result.components = XYZW
   /\ Len(values.in.source) = 4
   /\ \E i \in 1 .. 4 : values.in.result.write_mask[i])
  => \A i \in 1 .. 4 :
       values.out[i] =
         IF ~values.in.result.write_mask[i] THEN values.in.held[i]
         ELSE IF ~values.in.result.is_clamped THEN values.in.source[i]
         ELSE IF values.in.source[i] < 0 THEN 0
         ELSE IF values.in.source[i] > One THEN One
         ELSE values.in.source[i]

\* A clamped store under mask (x, w): y and z keep the held values, x is
\* clamped up to 0.0 and w down to 1.0.
C11_Witness ==
  /\ values.fn = "StoreToResult" /\ values.done
  /\ values.in.result.storage_target = "kRegister"
  /\ values.in.result.components = XYZW
  /\ values.in.result.is_clamped
  /\ values.in.result.write_mask = <<TRUE, FALSE, FALSE, TRUE>>
  /\ values.in.source = <<-5, 5, 5, 15>>
  /\ values.in.held = <<-20, 30, -20, 30>>
  /\ values.out = <<0, 30, -20, One>>

\* ------------------------------------------------------- LoadFromOperand
FAbs(v) == [i \in 1 .. Len(v) |-> IF v[i] < 0 THEN 0 - v[i] ELSE v[i]]
FNegate(v) == [i \in 1 .. Len(v) |-> 0 - v[i]]

\* InstructionOperand::is_standard_swizzle: four components, xyzw.
IsStandardOperandSwizzle(op) == op.component_count = 4 /\ op.components = XYZW

\* The loaded value after the absolute-value and negate modifiers.
ModifiedValue(storage_value, op) ==
  LET absolute == IF op.is_absolute_value THEN FAbs(storage_value)
                  ELSE storage_value
  IN IF op.is_negated THEN FNegate(absolute) ELSE absolute

OperandSwizzleUnreplicated(op) ==
  [i \in 1 .. 4 |-> SwizzleIndex(op.components[i])]

\* Shuffle operands of the operand swizzle: components start from the left
\* and the last one is duplicated rightwards.
OperandSwizzleOperands(op) ==
  [i \in 1 .. 4 |->
     SwizzleIndex(IF i - 1 > op.component_count - 1
                  THEN op.components[op.component_count]
                  ELSE op.components[i])]

\* What LoadFromOperand returns for a register or float constant holding
\* storage_value, and the instructions it emits after the access chain.
LoadedValue(storage_value, op) ==
  LET modified == ModifiedValue(storage_value, op)
      ops == <<"OpLoad">>
             \o (IF op.is_absolute_value THEN <<"FAbs">> ELSE <<>>)
             \o (IF op.is_negated THEN <<"OpFNegate">> ELSE <<>>)
  IN IF ~IsStandardOperandSwizzle(op)
     THEN [value |-> VectorShuffle(modified, ZeroOne, OperandSwizzleOperands(op)),
           ops |-> Append(ops, "OpVectorShuffle")]
     ELSE [value |-> modified, ops |-> ops]

SwizzleSources == {"kX", "kY", "kZ", "kW", "k0", "k1"}

\* Inputs of the load: storage lanes that are neither 0.0 nor 1.0, every
\* swizzle of one to four components.
LoadInputs ==
  [storage : {<<-5, 15, 3, -8>>, <<7, -2, -12, 4>>},
   op : [component_count : 1 .. 4,
         components : Vectors(4, SwizzleSources),
         is_absolute_value : BOOLEAN,
         is_negated : BOOLEAN]]

InitLoad == Constructed /\ values \in Given("LoadFromOperand", LoadInputs)

RunLoadFromOperand ==
  /\ values.fn = "LoadFromOperand" /\ ~values.done
  /\ values' = Computed(LoadedValue(values.in.storage, values.in.op))
  /\ UNCHANGED translator

\* One load of an operand from a register or float constant.
SpecLoad == InitLoad /\ [][RunLoadFromOperand]_vars

\* The lane or literal a swizzle source names.
Named(v, swiz) ==
  CASE swiz = "kX" -> v[1]
    [] swiz = "kY" -> v[2]
    [] swiz = "kZ" -> v[3]
    [] swiz = "kW" -> v[4]
    [] swiz = "k0" -> 0
    [] swiz = "k1" -> One

\* C12: under a non-identity swizzle, lane i of the loaded operand is the
\* lane of the (modified) source, or the literal 0.0 / 1.0, that
\* components[i] names when i < component_count, and the one that
\* components[component_count - 1] names otherwise; under the identity
\* swizzle no shuffle is emitted and the value is the source.
C12_OperandSwizzle ==
  (values.fn = "LoadFromOperand" /\ values.done)
  => LET op == values.in.op
         source == ModifiedValue(values.in.storage, op)
     IN IF op.component_count = 4 /\ op.components = XYZW
        THEN /\ values.out.value = source
             /\ \A k \in 1 .. Len(values.out.ops) :
                  values.out.ops[k] # "OpVectorShuffle"
        ELSE \A i \in 0 .. 3 :
               values.out.value[i + 1] =
                 Named(source, IF i < op.component_count
                               THEN op.components[i + 1]
                               ELSE op.components[op.component_count])

\* Two components (w, 1) with entries z and x beyond the count: the result
\* is (w, 1.0, 1.0, 1.0).
C12_Witness ==
  /\ values.fn = "LoadFromOperand" /\ values.done
  /\ values.in.op.component_count = 2
  /\ values.in.op.components = <<"kW", "k1", "kZ", "kX">>
  /\ ~values.in.op.is_absolute_value /\ ~values.in.op.is_negated
  /\ values.in.storage = <<-5, 15, 3, -8>>
  /\ values.out.value = <<-8, One, One, One>>

\* ------------------------------------------------------- kill opcodes
\* The comparison each kill opcode emits (OpFOrdEqual, OpFOrdGreaterThanEqual,
\* OpFOrdGreaterThan, OpFOrdNotEqual).
KillRelation(opcode, a, b) ==
  CASE opcode \in {"kKillEq", "kKillsEq", "kKillsOne"} -> a = b
    [] opcode \in {"kKillGe", "kKillsGe"} -> a >= b
    [] opcode \in {"kKillGt", "kKillsGt"} -> a > b
    [] opcode \in {"kKillNe", "kKillsNe"} -> a # b

\* OpAny over the lanes of a bool vector.
OpAny(v) == \E i \in 1 .. Len(v) : v[i]

\* cond of kKillEq .. kKillNe: the relation per lane, then OpAny.
VectorKillCondition(opcode, src0, src1) ==
  OpAny([i \in 1 .. 4 |-> KillRelation(opcode, src0[i], src1[i])])

ScalarKillAgainstZero(opcode, src0) == KillRelation(opcode, src0, 0)

\* cond of kKillsEq .. kKillsNe: the relation against 0.f; of kKillsOne:
\* OpFOrdEqual against 1.f.
ScalarKillCondition(opcode, src0) ==
  IF opcode = "kKillsOne" THEN KillRelation(opcode, src0, One)
  ELSE KillRelation(opcode, src0, 0)

\* dest after a kill: vec4_float_zero_ (vector), 0.f (scalar).
KillDest(opcode) ==
  IF opcode \in VectorKillOpcodes THEN <<0, 0, 0, 0>> ELSE <<0>>

\* A handler at work in the first block of a function.
InFirstBlock == [Ctx(FALSE) EXCEPT !.bp = 1, !.nb = 1]

\* What a kill opcode emits and what the emitted code computes.
KillLowering(opcode, src0, src1) ==
  [cond |-> IF opcode \in VectorKillOpcodes
            THEN VectorKillCondition(opcode, src0, src1)
            ELSE ScalarKillCondition(opcode, src0[1]),
   dest |-> KillDest(opcode),
   body |-> KillBody(InFirstBlock, opcode)]

KillInputs ==
  [opcode : VectorKillOpcodes,
   src0 : Vectors(4, {-5, 0, 5}),
   src1 : {<<0, 0, 0, 0>>, <<5, 5, 5, 5>>, <<-5, 0, 5, 0>>}]
  \cup [opcode : ScalarKillOpcodes,
        src0 : Vectors(1, {-5, 0, 5, One, 15}),
        src1 : Vectors(1, {-5, 0, 5, One, 15})]

InitKill == Constructed /\ values \in Given("Kill", KillInputs)

RunKill ==
  /\ values.fn = "Kill" /\ ~values.done
  /\ values' = Computed(KillLowering(values.in.opcode, values.in.src0,
                                     values.in.src1))
  /\ UNCHANGED translator

\* One kill opcode of a vector or scalar ALU instruction.
SpecKill == InitKill /\ [][RunKill]_vars

IsBlockEnd(e) == e.op \in {"OpBranch", "OpBranchConditional"}

\* The block structure of a kill: one conditional branch, the last
\* instruction of the block it is in, to a kill block holding only OpKill
\* and to a distinct continue block, which is empty and the build point.
KillStructure(body) ==
  LET out == body.out
      branches == Where(out, IsBlockEnd)
  IN /\ Cardinality(branches) = 1
     /\ \A k \in branches :
          /\ out[k].op = "OpBranchConditional"
          /\ out[k].blk = InFirstBlock.bp
          /\ out[k].t # out[k].f
          /\ {out[k].t, out[k].f} \cap {out[k].blk} = {}
          /\ \A j \in DOMAIN out : j > k => out[j].blk # out[k].blk
          /\ \E j \in DOMAIN out :
               /\ out[j].blk = out[k].t /\ out[j].op = "OpKill"
               /\ \A i \in DOMAIN out : out[i].blk = out[k].t => i = j
          /\ \A j \in DOMAIN out : out[j].blk # out[k].f
          /\ body.bp = out[k].f
     /\ body.dest

\* C13: each kill opcode ends the block with one conditional branch to a
\* kill block holding only the discard and to a continue block that becomes
\* the build point, with a zero destination; the kill is taken when the
\* opcode's relation holds in some lane of src0 against src1 (vector forms),
\* of src0 against 0.0 (kills_eq, kills_ge, kills_gt, kills_ne), and when
\* src0 equals 1.0 (kills_one).
C13_KillBranch ==
  (values.fn = "Kill" /\ values.done)
  => LET opcode == values.in.opcode
         src0 == values.in.src0
         src1 == values.in.src1
     IN /\ KillStructure(values.out.body)
        /\ \A i \in 1 .. Len(values.out.dest) : values.out.dest[i] = 0
        /\ values.out.cond =
             CASE opcode = "kKillEq" -> \E i \in 1 .. 4 : src0[i] = src1[i]
               [] opcode = "kKillGe" -> \E i \in 1 .. 4 : src0[i] >= src1[i]
               [] opcode = "kKillGt" -> \E i \in 1 .. 4 : src0[i] > src1[i]
               [] opcode = "kKillNe" -> \E i \in 1 .. 4 : src0[i] # src1[i]
               [] opcode = "kKillsEq" -> src0[1] = 0
               [] opcode = "kKillsGe" -> src0[1] >= 0
               [] opcode = "kKillsGt" -> src0[1] > 0
               [] opcode = "kKillsNe" -> src0[1] # 0
               [] opcode = "kKillsOne" -> src0[1] = One

\* kills_one on 1.0 takes the kill.
C13_Witness ==
  /\ values.fn = "Kill" /\ values.done
  /\ values.in.opcode = "kKillsOne"
  /\ values.in.src0 = <<One>>
  /\ values.out.cond
  /\ KillStructure(values.out.body)

\* C13 as stated: every scalar form, kills_one included, compares src0
\* with 0.0.
C13_AsStated ==
  (values.fn = "Kill" /\ values.done /\ values.in.opcode \in ScalarKillOpcodes)
  => values.out.cond =
       CASE values.in.opcode \in {"kKillsEq", "kKillsOne"} -> values.in.src0[1] = 0
         [] values.in.opcode = "kKillsGe" -> values.in.src0[1] >= 0
         [] values.in.opcode = "kKillsGt" -> values.in.src0[1] > 0
         [] values.in.opcode = "kKillsNe" -> values.in.src0[1] # 0

\* ------------------------------------------------------- address register
\* OpConvertFToS: conversion to a signed integer, rounding toward 0.0.
ConvertFToS(v) == IF v >= 0 THEN v \div One ELSE 0 - ((0 - v) \div One)

\* GLSL.std.450 SClamp(x, minVal, maxVal) = min(max(x, minVal), maxVal).
SClamp(x, lo, hi) == FMin(FMax(x, lo), hi)

\* kMaxA (on src0.w) and kMaxAs add 0.5f before the conversion, kMaxAsf
\* converts src0 as it is; all three clamp to [-256, 255].
AddressValue(opcode, src0) ==
  LET addr == IF opcode = "kMaxAsf" THEN src0 ELSE src0 + (One \div 2)
  IN SClamp(ConvertFToS(addr), -256, 255)

\* What the three opcodes store to a0 and leave in dest (FMax).
MaxA(opcode, src0, src1) ==
  [a0 |-> AddressValue(opcode, src0), dest |-> FMax(src0, src1)]

\* src0: in tenths, integers and fractions either side of zero and values
\* far outside [-256, 255].
MaxAInputs ==
  [opcode : {"kMaxA", "kMaxAs", "kMaxAsf"},
   src0 : {-3000 * One, -257 * One, -100, -26, -5, -4, 0, 4, 5, 26, 30, 100,
           255 * One, 3000 * One},
   src1 : {-2600 * One, -50, 0, 50, 2600 * One}]

InitMaxA == Constructed /\ values \in Given("MaxA", MaxAInputs)

RunMaxA ==
  /\ values.fn = "MaxA" /\ ~values.done
  /\ values' = Computed(MaxA(values.in.opcode, values.in.src0, values.in.src1))
  /\ UNCHANGED translator

\* One maxa / maxas / maxasf on given operand values.
SpecMaxA == InitMaxA /\ [][RunMaxA]_vars

\* The greatest integer not above v (v in tenths).
Floor(v) == v \div One

\* C14: maxas stores clamp(round(src0 + 0.5), -256, 255) to the address
\* register, the rounding being to the integer below (maxas(-10.0, 5.0)
\* stores -10), leaves max(src0, src1) in the destination, and the address
\* register always lies in [-256, 255].
C14_AddressRegister ==
  (values.fn = "MaxA" /\ values.done /\ values.in.opcode = "kMaxAs")
  => /\ values.out.a0 =
          LET rounded == Floor(values.in.src0 + 5)
          IN IF rounded < -256 THEN -256
             ELSE IF rounded > 255 THEN 255 ELSE rounded
     /\ values.out.dest = (IF values.in.src0 >= values.in.src1
                           THEN values.in.src0 ELSE values.in.src1)
     /\ values.out.a0 >= -256 /\ values.out.a0 <= 255

\* ------------------------------------------------------- alpha test
\* OpConvertFToU of a non-negative value: the fraction is dropped.
ConvertFToU(v) == v \div One

AlphaOpNegated(func, alpha, ref) ==
  CASE func = 1 -> alpha < ref
    [] func = 2 -> alpha = ref
    [] func = 3 -> alpha <= ref
    [] func = 4 -> alpha > ref
    [] func = 5 -> alpha # ref
    [] func = 6 -> alpha >= ref

\* alpha_op_map[1 .. 6] applied to (oC0_alpha, alpha_test_ref).
AlphaOp(func, alpha, ref) ==
  CASE func = 1 -> alpha >= ref
    [] func = 2 -> alpha # ref
    [] func = 3 -> alpha > ref
    [] func = 4 -> alpha <= ref
    [] func = 5 -> alpha = ref
    [] func = 6 -> alpha < ref

\* Whether the pixel epilogue executes a discard: only when
\* alpha_test_enabled is 1.0; segment 0 discards, segments 1 .. 6 discard
\* when their comparison is true, segment 7 (also the default) is empty.
AlphaTestDiscards(alpha_test_enabled, alpha_test_func, alpha_test_ref, oC0_alpha) ==
  LET func == ConvertFToU(alpha_test_func)
  IN IF alpha_test_enabled = One
     THEN CASE func = 0 -> TRUE
            [] func \in 1 .. 6 -> AlphaOp(func, oC0_alpha, alpha_test_ref)
            [] OTHER -> FALSE
     ELSE FALSE

\* Push-constant and colour values of one fragment, in tenths.
AlphaInputs ==
  [enabled : {0, 5, One},
   func : {f * One : f \in 0 .. 8} \cup {45},
   ref : {0, 5, One},
   alpha : {0, 3, 5, 7, One}]

InitAlpha == Constructed /\ values \in Given("AlphaTest", AlphaInputs)

RunAlphaTest ==
  /\ values.fn = "AlphaTest" /\ ~values.done
  /\ values' = Computed([discarded |->
       AlphaTestDiscards(values.in.enabled, values.in.func, values.in.ref,
                         values.in.alpha)])
  /\ UNCHANGED translator

\* The alpha test of the pixel epilogue on one fragment.
SpecAlpha == InitAlpha /\ [][RunAlphaTest]_vars

Selector == values.in.func \div One

FDiv(a, b) == (a * One) \div b
FMul(a, b) == (a * b) \div One

\* OpSelect, lane by lane: a where the condition is true, b elsewhere.
Select(c, a, b) == [i \in 1 .. Len(c) |-> IF c[i] THEN a[i] ELSE b[i]]

\* pos.w = vtx_fmt.w == 0.0 ? 1.0 / pos.w : pos.w
PositionW(p, vtx_fmt) ==
  LET c_w == vtx_fmt[4] # 0
      p_w == p[4]
      p_w_inv == FDiv(One, p_w)
  IN IF c_w THEN p_w ELSE p_w_inv

DividedEveryLane(p, vtx_fmt) ==
  [i \in 1 .. 4 |-> FDiv(p[i], PositionW(p, vtx_fmt))]

\* The position after the perspective-divide step: every lane whose format
\* flag is non-zero is divided by p_w, then p_w is inserted as lane w.
DividedPosition(p, vtx_fmt) ==
  LET c == [i \in 1 .. 4 |-> vtx_fmt[i] # 0]
      p_w == PositionW(p, vtx_fmt)
      p_all_w == [i \in 1 .. 4 |-> p_w]
      p_inv == [i \in 1 .. 4 |-> FDiv(p[i], p_all_w[i])]
      selected == Select(c, p_inv, p)
  IN [selected EXCEPT ![4] = p_w]

\* pos.xy *= window_scale.xy
ScaledPosition(p, window_scale) ==
  LET p_scaled == [i \in 1 .. 4 |-> FMul(p[i], window_scale[i])]
  IN VectorShuffle(p, p_scaled, <<4, 5, 2, 3>>)

VertexEpilogue(p, vtx_fmt, window_scale) ==
  LET divided == DividedPosition(p, vtx_fmt)
  IN [divided |-> divided, stored |-> ScaledPosition(divided, window_scale)]

\* Clip positions with w of 1.0, 2.0, 0.5 and -2.0, every combination of
\* zero and non-zero format flags, unit and non-unit window scale.
EpilogueInputs ==
  [p : {<<x, y, z, w>> : x \in {-40, 20}, y \in {-40, 20}, z \in {0, 60},
                         w \in {One, 20, 5, -20}},
   vtx_fmt : Vectors(4, {0, 5}),
   window_scale : {<<One, One, One, One>>, <<20, 5, 30, 30>>}]

InitEpilogue == Constructed /\ values \in Given("VertexEpilogue", EpilogueInputs)

RunVertexEpilogue ==
  /\ values.fn = "VertexEpilogue" /\ ~values.done
  /\ values' = Computed(VertexEpilogue(values.in.p, values.in.vtx_fmt,
                                       values.in.window_scale))
  /\ UNCHANGED translator

\* The position transform of the vertex epilogue on one vertex.
SpecEpilogue == InitEpilogue /\ [][RunVertexEpilogue]_vars

\* The (possibly inverted) w: w itself when vtx_fmt.w is non-zero, 1 / w
\* when it is 0.0.
EffectiveW ==
  IF values.in.vtx_fmt[4] # 0 THEN values.in.p[4]
  ELSE (One * One) \div values.in.p[4]

\* C16: lanes x, y and z of the clip position leave the perspective-divide
\* step unchanged when their format flag is 0.0 and divided by the
\* (possibly inverted) w when it is non-zero; lane w leaves it as that w:
\* unchanged when vtx_fmt.w is non-zero, inverted when it is 0.0.  Window
\* scale is applied afterwards, to x and y only.
C16_PerspectiveDivide ==
  (values.fn = "VertexEpilogue" /\ values.done)
  => /\ \A L \in 1 .. 3 :
          values.out.divided[L] =
            IF values.in.vtx_fmt[L] = 0 THEN values.in.p[L]
            ELSE (values.in.p[L] * One) \div EffectiveW
     /\ values.out.divided[4] = EffectiveW
     /\ values.out.stored =
          <<(values.out.divided[1] * values.in.window_scale[1]) \div One,
            (values.out.divided[2] * values.in.window_scale[2]) \div One,
            values.out.divided[3], values.out.divided[4]>>

\* vtx_fmt = (0.5, 0, 0.5, 0), position (2, -4, 6, 2): w becomes 0.5, x and
\* z are divided by it, y is kept; then x and y are scaled.
C16_Witness ==
  /\ values.fn = "VertexEpilogue" /\ values.done
  /\ values.in.vtx_fmt = <<5, 0, 5, 0>>
  /\ values.in.p = <<20, -40, 60, 20>>
  /\ values.in.window_scale = <<20, 5, 30, 30>>
  /\ values.out.divided = <<40, -40, 120, 5>>
  /\ values.out.stored = <<80, -20, 120, 5>>

\* C16 as stated: every lane, w included, is unchanged when its format
\* flag is 0.0 and divided by the (possibly inverted) w otherwise.
C16_AsStated ==
  (values.fn = "VertexEpilogue" /\ values.done)
  => \A L \in 1 .. 4 :
       values.out.divided[L] =
         IF values.in.vtx_fmt[L] = 0 THEN values.in.p[L]
         ELSE (values.in.p[L] * One) \div EffectiveW

\* ------------------------------------------------------- vertex fetch
FetchUnconditional(index_operand, shader_vertex_id) == TRUE

\* cond: lane x of the index operand, converted to an integer, equals the
\* vertex index input.
FetchCondition(index_operand, shader_vertex_id) ==
  ConvertFToS(index_operand[1]) = shader_vertex_id

\* alt_vertex, by the component count of the fetched attribute.
AltVertex(vertex_components) ==
  CASE vertex_components = 1 -> <<0>>
    [] vertex_components = 2 -> <<0, One>>
    [] vertex_components = 3 -> <<0, 0, One>>
    [] vertex_components = 4 -> <<0, 0, 0, One>>

\* The value the fetch hands to StoreToResult: OpSelect between the loaded
\* attribute and alt_vertex on the smeared condition.
FetchedVertex(index_operand, shader_vertex_id, vertex) ==
  LET cond == [i \in 1 .. 4 |-> FetchCondition(index_operand, shader_vertex_id)]
      alt_vertex == AltVertex(Len(vertex))
  IN [i \in 1 .. Len(vertex) |-> IF cond[i] THEN vertex[i] ELSE alt_vertex[i]]

AllWrites ==
  [storage_target |-> "kRegister", write_mask |-> <<TRUE, TRUE, TRUE, TRUE>>,
   components |-> XYZW, is_clamped |-> FALSE]

\* Index operands with whole and fractional x, vertex indices 0 .. 2,
\* attributes of one to four components that differ from the defaults.
FetchInputs ==
  [index_operand : {<<x, 990, 990, 990>> : x \in {-5, 0, One, 15, 20}},
   shader_vertex_id : 0 .. 2,
   vertex : UNION {Vectors(n, {-30, 70}) : n \in 1 .. 4}]

InitFetch == Constructed /\ values \in Given("VertexFetch", FetchInputs)

RunVertexFetch ==
  /\ values.fn = "VertexFetch" /\ ~values.done
  /\ LET vertex == FetchedVertex(values.in.index_operand,
                                 values.in.shader_vertex_id, values.in.vertex)
     IN values' = Computed([vertex |-> vertex,
                            stored |-> StoredValue(vertex, <<-20, 30, -20, 30>>,
                                                   AllWrites)])
  /\ UNCHANGED translator

\* The value path of one vertex fetch.
SpecFetch == InitFetch /\ [][RunVertexFetch]_vars

SameIndex ==
  (IF values.in.index_operand[1] >= 0
   THEN values.in.index_operand[1] \div One
   ELSE 0 - ((0 - values.in.index_operand[1]) \div One))
  = values.in.shader_vertex_id

IsSample(e) == e.op = "OpImageSample"
IsResultStore(e) == e.op = "OpStore" /\ e.on = "result"

C18_Step ==
  (/\ step'.call = "ProcessTextureFetchInstruction"
   /\ step'.instr.opcode # "kTextureFetch")
  => /\ step'.violated # {} /\ phase' = "aborted"
     /\ Count(step'.out, IsSample) = 0
     /\ Count(step'.out, IsPrevStore) = 0
     /\ Count(step'.out, IsResultStore) = 0
     /\ open_predicated_block_' = open_predicated_block_
     /\ predicated_block_cond_' = predicated_block_cond_
     /\ predicated_block_end_' = predicated_block_end_
     /\ builder_'.build_point = builder_.build_point

\* C18: a texture fetch with an opcode other than the supported sample
\* opcode raises the fatal unhandled-opcode signal (the translation goes no
\* further), emits no sample and no store to pv or to the result, and leaves
\* the predication context and the build point as they were before it.
C18_UnsupportedFetch == [][C18_Step]_vars

\* ------------------------------------------------------- dominance flags
\* Some jump of the program pre-processed so far targets address T.
Targeted(T) ==
  \E k \in 1 .. Len(prog) : prog[k].opcode = "kCondJmp" /\ prog[k].address = T

\* C19: after the pre-pass over a program (and over every prefix of it) the
\* block at address T has prev_dominates = FALSE exactly when some jump of
\* the program targets T, whether the jump comes before or after T in the
\* program; every jump target has an entry.
C19_PrevDominates ==
  (step.call = "PreProcessControlFlowInstruction" /\ phase = "pre")
  => /\ \A T \in DOMAIN cf_blocks_ :
          ~cf_blocks_[T].prev_dominates <=> Targeted(T)
     /\ \A k \in 1 .. Len(prog) :
          prog[k].opcode = "kCondJmp" => prog[k].address \in DOMAIN cf_blocks_

\* ------------------------------------------------------- selection merges
IsConditionalBranch(e) == e.op = "OpBranchConditional"

\* The last callback was a conditional or predicated exec that returned.
BranchingExec ==
  /\ step.call = "ProcessExecInstructionBegin"
  /\ step.instr.type \in {"kConditional", "kPredicated"}
  /\ phase = "exec"

\* The last callback was a conditional or predicated jump that returned.
BranchingJump ==
  /\ step.call = "ProcessJumpInstruction"
  /\ step.instr.type \in {"kConditional", "kPredicated"}
  /\ phase = "cf_end"

\* The block at address a has had its prev_dominates flag cleared.
Cleared(a) == a \in DOMAIN cf_blocks_ /\ ~cf_blocks_[a].prev_dominates

\* Position k of out is a conditional branch with a selection merge
\* immediately before it.
MergeBefore(out, k) == k > 1 /\ IsMerge(out[k - 1]) /\ out[k - 1].blk = out[k].blk

IAdd(a, b) == a + b

\* Out of the 512 constant registers pixel shaders get the last 256.
StorageBase(storage_source, st) ==
  IF storage_source = "kConstantFloat"
  THEN (IF st = "pixel" THEN 256 ELSE 0)
  ELSE 0

LoadIndexWithoutBase(op, st, a0) ==
  CASE op.storage_addressing_mode = "kStatic" -> op.storage_index
    [] op.storage_addressing_mode = "kAddressAbsolute" -> IAdd(a0, op.storage_index)
    [] op.storage_addressing_mode = "kAddressRelative" -> IAdd(0, op.storage_index)

\* storage_index of LoadFromOperand, as a value at run time.
LoadIndex(op, st, a0) ==
  LET storage_base == StorageBase(op.storage_source, st)
  IN CASE op.storage_addressing_mode = "kStatic" ->
            storage_base + op.storage_index
       [] op.storage_addressing_mode = "kAddressAbsolute" ->
            IAdd(a0, storage_base + op.storage_index)
       [] op.storage_addressing_mode = "kAddressRelative" ->
            IAdd(0, storage_base + op.storage_index)

AddressingModes == {"kStatic", "kAddressAbsolute", "kAddressRelative"}

\* Values of the address register: the ends of its range, -1, 0 and 3.
A0Values == {-256, -1, 0, 3, 255}

StorageIndices == {0, 1, 5, 255}

LoadIndexInputs ==
  [op : [storage_source : {"kRegister", "kConstantFloat"},
         storage_addressing_mode : AddressingModes,
         storage_index : StorageIndices],
   st : {"vertex", "pixel"},
   a0 : A0Values]

RunLoadIndex ==
  /\ values.fn = "LoadIndex" /\ ~values.done
  /\ values' = Computed(LoadIndex(values.in.op, values.in.st, values.in.a0))
  /\ UNCHANGED translator

\* C21: the storage index of a loaded operand is base + storage_index for
\* static addressing, base + storage_index + a0 (as a 32-bit word)
\* for address-register addressing and base + storage_index for
\* loop-relative addressing, with base 256 for a float constant in a pixel
\* shader and 0 for a float constant in a vertex shader and for every
\* register.
C21_LoadIndex ==
  (values.fn = "LoadIndex" /\ values.done)
  => LET op == values.in.op
         base == IF op.storage_source = "kConstantFloat" /\ values.in.st = "pixel"
                 THEN 256 ELSE 0
     IN values.out =
          IF op.storage_addressing_mode = "kAddressAbsolute"
          THEN base + op.storage_index + values.in.a0
          ELSE base + op.storage_index

\* Float constant 5 of a pixel shader, addressed through a0 = 3: index 264.
C21_Witness ==
  /\ values.fn = "LoadIndex" /\ values.done
  /\ values.in.op.storage_source = "kConstantFloat"
  /\ values.in.op.storage_addressing_mode = "kAddressAbsolute"
  /\ values.in.op.storage_index = 5
  /\ values.in.st = "pixel" /\ values.in.a0 = 3
  /\ values.out = 264

\* ------------------------------------------------------- store emission
ArrayTargets == {"kRegister", "kInterpolant", "kColorTarget"}
PointerTargets == ArrayTargets \cup {"kPosition", "kDepth"}

\* storage_index of StoreToResult: a constant, the sum with a0, or (loop
\* relative, "TODO") the initial Id 0, which names no value.
StoreIndex(result, a0, undefined) ==
  CASE result.storage_addressing_mode = "kStatic" ->
         [defined |-> TRUE, value |-> result.storage_index]
    [] result.storage_addressing_mode = "kAddressAbsolute" ->
         [defined |-> TRUE, value |-> IAdd(a0, result.storage_index)]
    [] result.storage_addressing_mode = "kAddressRelative" ->
         [defined |-> FALSE, value |-> undefined]

\* Number of components of the storage type: float for kDepth, vec4 else.
NumTypeComponents(storage_target) == IF storage_target = "kDepth" THEN 1 ELSE 4

\* The instructions StoreToResult emits, in order, and the index its access
\* chain is built from.
StoreEmission(result, n_el, a0, undefined) ==
  IF result.storage_target = "kNone" \/ ~HasAnyWrites(result)
  THEN [ops |-> <<>>, chain |-> <<>>]
  ELSE
    LET addressed == IF result.storage_addressing_mode = "kAddressAbsolute"
                     THEN <<"OpLoad a0", "OpIAdd">> ELSE <<>>
        storage_index == StoreIndex(result, a0, undefined)
    IN IF result.storage_target \notin PointerTargets
       THEN [ops |-> addressed, chain |-> <<>>]
       ELSE
         LET storage_array == result.storage_target \in ArrayTargets
             chained == IF storage_array THEN <<"OpAccessChain">> ELSE <<>>
             loaded == IF ~HasAllWrites(result) THEN <<"OpLoad">> ELSE <<>>
             clamped == IF result.is_clamped THEN <<"FClamp">> ELSE <<>>
             converted == IF n_el # NumTypeComponents(result.storage_target)
                          THEN <<"OpCompositeConstruct">> ELSE <<>>
             swizzled == IF ~IsStandardSwizzle(result)
                         THEN <<"OpVectorShuffle">> ELSE <<>>
             masked == IF ~HasAllWrites(result)
                       THEN <<"OpVectorShuffle">> ELSE <<>>
         IN [ops |-> addressed \o chained \o loaded \o clamped \o converted
                     \o swizzled \o masked \o <<"OpStore">>,
             chain |-> IF storage_array THEN <<storage_index>> ELSE <<>>]

StoreEmissionInputs ==
  [result : [storage_target : PointerTargets \cup {"kPointSize", "kNone"},
             storage_addressing_mode : AddressingModes,
             storage_index : {1, 5},
             write_mask : {<<FALSE, FALSE, FALSE, FALSE>>,
                           <<TRUE, FALSE, FALSE, TRUE>>,
                           <<TRUE, TRUE, TRUE, TRUE>>},
             components : {XYZW, <<"kW", "kZ", "kY", "kX">>},
             is_clamped : BOOLEAN],
   n_el : {1, 4},
   a0 : {-1, 3}]

InitAccess ==
  /\ Constructed
  /\ values \in Given("LoadIndex", LoadIndexInputs)
                  \cup Given("StoreEmission", StoreEmissionInputs)

\* What an access chain built from Id 0 indexes with is not defined: any
\* index.
RunStoreEmission ==
  /\ values.fn = "StoreEmission" /\ ~values.done
  /\ \E undefined \in {0, values.in.result.storage_index, -1} :
       values' = Computed(StoreEmission(values.in.result, values.in.n_el,
                                        values.in.a0, undefined))
  /\ UNCHANGED translator

NextAccess == RunLoadIndex \/ RunStoreEmission

\* The index computation of one operand load, the emission of one store.
SpecAccess == InitAccess /\ [][NextAccess]_vars

\* C22: the index of a store to a register, interpolant or colour target is
\* resolved as for a load: storage_index for static addressing,
\* storage_index + a0 for address-register addressing, storage_index for
\* loop-relative addressing, and the access chain is built from a defined
\* index value in all three modes.
C22_StoreIndex ==
  (/\ values.fn = "StoreEmission" /\ values.done
   /\ values.in.result.storage_target \in ArrayTargets
   /\ \E i \in 1 .. 4 : values.in.result.write_mask[i])
  => /\ Len(values.out.chain) = 1
     /\ values.out.chain[1].defined
     /\ values.out.chain[1].value =
          IF values.in.result.storage_addressing_mode = "kAddressAbsolute"
          THEN values.in.result.storage_index + values.in.a0
          ELSE values.in.result.storage_index

Stores(ops) == Cardinality({k \in DOMAIN ops : ops[k] = "OpStore"})

\* C23: StoreToResult emits nothing when the target is none or no write-mask
\* bit is set, and exactly one store for each of register, interpolant,
\* position, point-size, colour target and depth when a bit is set.
C23_OneStore ==
  (values.fn = "StoreEmission" /\ values.done)
  => IF \/ values.in.result.storage_target = "kNone"
        \/ \A i \in 1 .. 4 : ~values.in.result.write_mask[i]
     THEN values.out.ops = <<>>
     ELSE Stores(values.out.ops) = 1

\* ---------------------------------------------------------------------
\* Vector setp*_push lowering (ProcessVectorAluInstruction).

\* c0 and c1 of one lane: the comparison each opcode's case emits on
\* sources[0] and on sources[1], both against vec4_float_zero_.
SetpPushC0(opcode, a) ==
  CASE opcode = "kSetpEqPush" -> a = 0
    [] opcode = "kSetpGePush" -> a = 0
    [] opcode = "kSetpGtPush" -> a = 0
    [] opcode = "kSetpNePush" -> a # 0

SetpPushC1(opcode, b) ==
  CASE opcode = "kSetpEqPush" -> b = 0
    [] opcode = "kSetpGePush" -> b >= 0
    [] opcode = "kSetpGtPush" -> b > 0
    [] opcode = "kSetpNePush" -> b = 0

\* c_and = c0 && c1 per lane; p0 <- c_and.w; dest = c_and.x (smeared) ?
\* 0.0 : smear(sources[0].x + 1.0).
SetpPush(opcode, src0, src1) ==
  LET c_and   == [i \in 1 .. 4 |->
                    SetpPushC0(opcode, src0[i]) /\ SetpPushC1(opcode, src1[i])]
      c_and_x == c_and[1]
      c_and_w == c_and[4]
      s0_x    == src0[1] + One
  IN  [p0   |-> c_and_w,
       dest |-> [i \in 1 .. 4 |-> IF c_and_x THEN 0 ELSE s0_x]]

SetpPushOpcodes == {"kSetpEqPush", "kSetpGePush", "kSetpGtPush", "kSetpNePush"}

SetpPushInputs ==
  [opcode : SetpPushOpcodes,
   src0   : Vectors(4, {-One, 0, One}),
   src1   : Vectors(4, {-One, 0, One})]

InitSetp == Constructed /\ values \in Given("SetpPush", SetpPushInputs)

RunSetpPush ==
  /\ values.fn = "SetpPush"
  /\ ~values.done
  /\ values' = Computed(SetpPush(values.in.opcode, values.in.src0,
                                 values.in.src1))
  /\ UNCHANGED translator

SpecSetp == InitSetp /\ [][RunSetpPush]_vars

\* The relation the opcode is named after, against 0.0.
PushRelation(opcode, b) ==
  CASE opcode = "kSetpEqPush" -> b = 0
    [] opcode = "kSetpGePush" -> b >= 0
    [] opcode = "kSetpGtPush" -> b > 0
    [] opcode = "kSetpNePush" -> b # 0

\* C24: for setp_eq_push, setp_ge_push, setp_gt_push and setp_ne_push the
\* per-lane boolean is (operand0 == 0.0) AND (operand1 REL 0.0); the
\* predicate flag receives lane w of it, and the destination is 0.0 in
\* every lane when lane x of it is true and operand0.x + 1.0 in every lane
\* otherwise.
C24_SetpPush ==
  (values.fn = "SetpPush" /\ values.done) =>
    LET in  == values.in
        lane(i) == in.src0[i] = 0 /\ PushRelation(in.opcode, in.src1[i])
    IN  /\ values.out.p0 = lane(4)
        /\ values.out.dest =
             [i \in 1 .. 4 |-> IF lane(1) THEN 0 ELSE in.src0[1] + One]

\* ---------------------------------------------------------------------
\* Vertex prologue: zeroing of the interpolator outputs (StartTranslation).

\* Elements of the interpolators array type.
kMaxInterpolators == 16

\* Most registers a shader declares (register_count()).
MaxRegisterCount == 64

Min(a, b) == IF a < b THEN a ELSE b

vec4_float_zero_ == <<0, 0, 0, 0>>

\* The stores of the "Zero interpolators" loop, in emission order: one
\* OpStore of vec4_float_zero_ through an access chain on element i, for
\* i = 0 .. min(register_count(), kMaxInterpolators) - 1.
ZeroInterpolators(register_count) ==
  [k \in 1 .. Min(register_count, kMaxInterpolators) |->
     [op |-> "OpStore", variable |-> "interpolators", chain |-> <<k - 1>>,
      value |-> vec4_float_zero_]]

InitPrologue ==
  Constructed /\ values \in Given("ZeroInterpolators", 0 .. MaxRegisterCount)

RunZeroInterpolators ==
  /\ values.fn = "ZeroInterpolators"
  /\ ~values.done
  /\ values' = Computed(ZeroInterpolators(values.in))
  /\ UNCHANGED translator

SpecPrologue == InitPrologue /\ [][RunZeroInterpolators]_vars

\* C25: the vertex prologue stores zero to every one of the 16 elements
\* of the interpolator output array, for every register count.
C25_InterpolatorsZeroed ==
  (values.fn = "ZeroInterpolators" /\ values.done) =>
    \A i \in 0 .. kMaxInterpolators - 1 :
      \E k \in DOMAIN values.out :
        /\ values.out[k].chain = <<i>>
        /\ values.out[k].value = vec4_float_zero_

\* ------------------------------------------------------------------- C26
\* The operation of an instruction: the ALU operation on the loaded
\* operands, the select of the fetched vertex, the image sample.
IsOperation(e) == e.op \in {"Alu", "OpSelect", "OpImageSample"}

\* Among the blocks an instruction emits into, block l is on every path to
\* block u when it is u itself or the block whose conditional branch on p0
\* opens the region with body u.
OnEveryPathTo(out, l, u) ==
  \/ l = u
  \/ \E m \in DOMAIN out : IsP0Branch(out[m]) /\ out[m].blk = l /\ out[m].t = u

\* C26: every operand load of an ALU or fetch instruction is placed in a
\* block that is executed on every path reaching the block of the operation
\* that uses it; when the instruction closes the open region its operand
\* loads are in the merge block or later, never in the body block of the
\* region being closed.
C26_LoadsReachOperation ==
  step.call \in InstrCalls =>
    \A j, k \in DOMAIN step.out :
      (IsOperandLoad(step.out[j]) /\ IsOperation(step.out[k])) =>
        OnEveryPathTo(step.out, step.out[j].blk, step.out[k].blk)

\* ------------------------------------------------------------------- C27
IsTerminator(e) == e.op \in {"OpBranch", "OpBranchConditional", "OpReturn", "OpKill"}

\* The terminators the callback just finished has put into block b.
TerminatorsIn(b) ==
  {k \in DOMAIN step.out : IsTerminator(step.out[k]) /\ step.out[k].blk = b}

\* C27: once the handler of the control-flow instruction at an address has
\* run, the block registered for that address has received exactly one
\* terminator from it, for every kind of control-flow instruction, nop
\* included (for an exec, whose head block may be ended by any callback of
\* the exec, the closing callback ends the block that is open then); no block
\* that earlier branches target is left without a terminator.
C27_BlockTerminated ==
  (phase = "cf_end" /\ pc \in DOMAIN cf_blocks_) =>
    IF step.call = "ProcessExecInstructionEnd"
    THEN IsTerminator(step.out[Len(step.out)])
    ELSE Cardinality(TerminatorsIn(cf_blocks_[pc].block)) = 1

\* ------------------------------------------------------------------- C28
\* What a fresh instance holds for the program being translated: an entry
\* for each of its addresses and jump targets (the handlers add the address
\* after the last), with prev_dominates cleared exactly at the jump targets.
Translating == phase \in {"cf_begin", "cf", "exec", "cf_end", "done"}

OwnAddresses ==
  (0 .. Len(prog)) \cup {prog[k].address : k \in {j \in 1 .. Len(prog) :
                                                   prog[j].opcode = "kCondJmp"}}

\* C28: a program translated on an instance that has translated another one
\* before gets the control-flow structure it gets on a fresh instance: only
\* its own block entries are in the map, prev_dominates is cleared exactly at
\* its own jump targets, and a conditional or predicated exec carries a
\* selection merge exactly when no jump of the program targets the next
\* address.  Nothing recorded for the earlier program is visible.
C28_ReuseIndependent ==
  Translating =>
    /\ DOMAIN cf_blocks_ \subseteq OwnAddresses
    /\ \A T \in DOMAIN cf_blocks_ : ~cf_blocks_[T].prev_dominates <=> Targeted(T)
    /\ BranchingExec => (Count(step.out, IsMerge) = 1 <=> ~Targeted(pc + 1))

\* ---------------------------------------------------------------------
\* The condition of a conditional or predicated exec and jump
\* (ProcessExecInstructionBegin, ProcessJumpInstruction).
\* A 32-bit word is written as the set of the positions of its set bits:
\* OpBitwiseAnd is the intersection, 1 << n the word {n}, 0 the empty word.
OpBitwiseAnd(a, b) == a \cap b

ShiftLeftOne(n) == {n}

\* offsets {2, bool_constant_index / 32}: the word of bool_consts that is
\* loaded.
BoolConstantWord(bool_constant_index, bool_consts) ==
  bool_consts[bool_constant_index \div 32]

\* BoolConstantCond with OpIEqual and OpINotEqual exchanged.
BoolConstantCondInverted(bool_constant_index, condition, bool_consts) ==
  LET v == OpBitwiseAnd(BoolConstantWord(bool_constant_index, bool_consts),
                        ShiftLeftOne(bool_constant_index % 32))
  IN  IF condition THEN v = {} ELSE v # {}

\* v = word & (1 << (bool_constant_index % 32));
\* cond = instr.condition ? OpINotEqual(v, 0) : OpIEqual(v, 0).
BoolConstantCond(bool_constant_index, condition, bool_consts) ==
  LET v == OpBitwiseAnd(BoolConstantWord(bool_constant_index, bool_consts),
                        ShiftLeftOne(bool_constant_index % 32))
  IN  IF condition THEN v # {} ELSE v = {}

\* cond = OpLogicalEqual(load p0_, instr.condition).
PredicateCond(p0, condition) == p0 <=> condition

BranchCond(instr, p0, bool_consts) ==
  IF instr.type = "kConditional"
  THEN BoolConstantCond(instr.bool_constant_index, instr.condition, bool_consts)
  ELSE PredicateCond(p0, instr.condition)

\* Where control goes from the head block of the instruction when the shader
\* runs: createConditionalBranch(cond, body, next_block.block) of an exec,
\* createConditionalBranch(cond, cf_blocks_[target_address].block,
\* cf_blocks_[dword_index + 1].block) of a jump.
BranchSuccessors(instr, p0, bool_consts) ==
  LET cond == BranchCond(instr, p0, bool_consts)
      next == [cf |-> instr.dword_index + 1]
  IN  [exec |-> IF cond THEN [body |-> instr.dword_index] ELSE next,
       jump |-> IF cond THEN [cf |-> instr.target_address] ELSE next]

\* The 8 words of bool_consts, with one flag set or with one flag clear.
WordIndices == 0 .. 7
BitPositions == {0, 1, 15, 30, 31}
AllBits == 0 .. 31

BoolConstants ==
  UNION {{[i \in WordIndices |-> IF i = w THEN {n} ELSE {}],
          [i \in WordIndices |-> IF i = w THEN AllBits \ {n} ELSE AllBits]} :
           w \in WordIndices, n \in BitPositions}

BranchInputs ==
  [instr : [type : {"kConditional"}, bool_constant_index : 0 .. 255,
            condition : BOOLEAN, dword_index : {0}, target_address : {3}],
   p0 : {FALSE}, bool_consts : BoolConstants]
  \cup
  [instr : [type : {"kPredicated"}, bool_constant_index : {0, 255},
            condition : BOOLEAN, dword_index : {0, 1}, target_address : {0, 3}],
   p0 : BOOLEAN, bool_consts : {[i \in WordIndices |-> {}]}]

InitBranch == Constructed /\ values \in Given("BranchSuccessors", BranchInputs)

RunBranchSuccessors ==
  /\ values.fn = "BranchSuccessors"
  /\ ~values.done
  /\ values' = Computed(BranchSuccessors(values.in.instr, values.in.p0,
                                         values.in.bool_consts))
  /\ UNCHANGED translator

SpecBranch == InitBranch /\ [][RunBranchSuccessors]_vars

\* Flag k of the 256 boolean constants: bit (k mod 32) of word (k div 32).
Flag(bool_consts, k) ==
  \E w \in WordIndices, n \in AllBits :
    k = 32 * w + n /\ n \in bool_consts[w]

\* C29: a conditional exec or jump with bool constant index k and condition
\* c takes its taken successor (the exec's body, the jump's target) exactly
\* when bit (k mod 32) of bool-constant word (k div 32) equals c, for every
\* k in 0..255 and both c, and goes to the block of dword_index + 1
\* otherwise; a predicated one takes it exactly when the predicate flag
\* equals c.
C29_BranchTaken ==
  (values.fn = "BranchSuccessors" /\ values.done) =>
    LET instr == values.in.instr
        taken == IF instr.type = "kConditional"
                 THEN Flag(values.in.bool_consts, instr.bool_constant_index)
                        = instr.condition
                 ELSE values.in.p0 = instr.condition
        next  == [cf |-> instr.dword_index + 1]
    IN  /\ values.out.exec = IF taken THEN [body |-> instr.dword_index] ELSE next
        /\ values.out.jump = IF taken THEN [cf |-> instr.target_address] ELSE next

\* Flag 255 (bit 31 of word 7) is the only one set and the exec is
\* conditional on it being set: the body is taken.
C29_Witness ==
  /\ values.fn = "BranchSuccessors" /\ values.done
  /\ values.in.instr.type = "kConditional"
  /\ values.in.instr.bool_constant_index = 255
  /\ values.in.instr.condition
  /\ values.in.bool_consts = [i \in WordIndices |-> IF i = 7 THEN {31} ELSE {}]
  /\ values.out.exec = [body |-> 0]
  /\ values.out.jump = [cf |-> 3]

\* ---------------------------------------------------------------------
\* Component extraction in the vector ALU lowering
\* (ProcessVectorAluInstruction, kDst and kMax4).

\* The constant lane indices the case of the opcode passes to
\* createCompositeExtract, in emission order.
CompositeExtractIndices(opcode) ==
  CASE opcode = "kDst"  -> <<1, 1, 3, 4>>
    [] opcode = "kMax4" -> <<0, 1, 2, 3>>

\* OpCompositeExtract of lane index (counted from 0) of v.  An index past
\* the last lane names no component: the module is invalid and what the
\* driver's compiler reads for it is not defined.
CompositeExtract(v, index, undefined) ==
  IF index \in 0 .. (Len(v) - 1) THEN v[index + 1] ELSE undefined

\* dest = (1.0, src0_y * src1_y, src0_z, src1_w), with src0_z and src1_w
\* as the code extracts them.
Dst(src0, src1, undefined) ==
  LET src0_y == CompositeExtract(src0, 1, undefined)
      src1_y == CompositeExtract(src1, 1, undefined)
      dst_y  == FMul(src0_y, src1_y)
      src0_z == CompositeExtract(src0, 3, undefined)
      src1_w == CompositeExtract(src1, 4, undefined)
  IN  <<One, dst_y, src0_z, src1_w>>

\* dest = smear(max(max(src0.x, src0.y), max(src0.z, src0.w))).
Max4(src0, undefined) ==
  LET max_xy == FMax(CompositeExtract(src0, 0, undefined),
                     CompositeExtract(src0, 1, undefined))
      max_zw == FMax(CompositeExtract(src0, 2, undefined),
                     CompositeExtract(src0, 3, undefined))
      max_xyzw == FMax(max_xy, max_zw)
  IN  <<max_xyzw, max_xyzw, max_xyzw, max_xyzw>>

VectorExtraction(opcode, src0, src1, undefined) ==
  [indices |-> CompositeExtractIndices(opcode),
   dest    |-> IF opcode = "kDst" THEN Dst(src0, src1, undefined)
               ELSE Max4(src0, undefined)]

ExtractionInputs ==
  [opcode : {"kDst", "kMax4"},
   src0   : Vectors(4, SourceLanes),
   src1   : Vectors(4, SourceLanes)]

InitExtraction ==
  Constructed /\ values \in Given("VectorExtraction", ExtractionInputs)

RunVectorExtraction ==
  /\ values.fn = "VectorExtraction"
  /\ ~values.done
  /\ \E undefined \in SourceLanes \cup {0} :
       values' = Computed(VectorExtraction(values.in.opcode, values.in.src0,
                                           values.in.src1, undefined))
  /\ UNCHANGED translator

SpecExtraction == InitExtraction /\ [][RunVectorExtraction]_vars

\* C30: every component extraction of the vector ALU lowering on a
\* 4-component operand uses a lane index in 0..3, and dst builds
\* (1.0, src0.y * src1.y, src0.z, src1.w): lane y of both operands, lane z
\* (index 2) of src0 and lane w (index 3) of src1.
C30_ExtractionLanes ==
  (values.fn = "VectorExtraction" /\ values.done) =>
    /\ \A k \in DOMAIN values.out.indices : values.out.indices[k] \in 0 .. 3
    /\ values.in.opcode = "kDst" =>
         values.out.dest = <<One, FMul(values.in.src0[2], values.in.src1[2]),
                             values.in.src0[3], values.in.src1[4]>>
====
